---- MODULE Spec2Model ----
(***************************************************************************)
(* State-machine model of the market-intelligence chatbot backend:         *)
(*   - MarketIntelligenceAgent (agent/graph.py): the agent/tools loop,     *)
(*     invoke, and the checkpointed per-session message history;           *)
(*   - MCPClientWrapper (mcp_client/client.py): connect, disconnect,       *)
(*     call_tool over one shared session;                                  *)
(*   - ResponseCache (utils/cache.py) over RedisClient                     *)
(*     (utils/redis_client.py);                                            *)
(*   - TokenBucketRateLimiter (utils/rate_limiter.py).                     *)
(* Steps are cut at the awaits of the code: the synchronous code between   *)
(* two awaits of one task is one action.                                   *)
(* Spec is the agent with its client and cache; SpecCache is the cache     *)
(* called directly; SpecLimiter is the rate limiter called directly.       *)
(***************************************************************************)
EXTENDS Integers, Sequences, FiniteSets, TLC

(***************************************************************************)
(* Bounds of the model.                                                    *)
(***************************************************************************)
\* invoke calls made in one behaviour, over all sessions
MaxInvokes == 2
\* tool-requesting answers the language model gives within one invoke
MaxRounds == 2
\* tool calls in one assistant message
MaxBatch == 2
\* tool calls issued in one behaviour, over all sessions
MaxCalls == 2
\* initialize()/cleanup() calls made in one behaviour
MaxLifecycle == 2
\* calls a direct caller makes on the ResponseCache in one behaviour
MaxCacheOps == 2
\* check_rate_limit calls made in one behaviour
MaxChecks == 9
\* times the clock moves between two check_rate_limit calls in one behaviour
MaxWaits == 2
\* check_rate_limit calls made in one behaviour by two processes together
MaxRaceChecks == 8
\* stream calls made in one behaviour, over all sessions
MaxStreams == 3
\* requests the rate_limit_middleware handles in one behaviour
MaxRequests == 16
\* CallToolResult objects converted in one behaviour
MaxConversions == 2

Sessions == {"s1", "s2"}

None == "None"

(***************************************************************************)
(* Python values.  Every value has the same shape so that any two can be   *)
(* compared: type is the Python type, items the (key, value) pairs of a    *)
(* dict in insertion order or the elements of a list or tuple, text the    *)
(* fragments of a str or the literal of an int.                            *)
(***************************************************************************)
PyNone == [type |-> "NoneType", items |-> << >>, text |-> << >>]
PyStr(frags) == [type |-> "str", items |-> << >>, text |-> frags]
PyInt(lit) == [type |-> "int", items |-> << >>, text |-> <<lit>>]
PyDict(kvs) == [type |-> "dict", items |-> kvs, text |-> << >>]
PyList(elems) == [type |-> "list", items |-> elems, text |-> << >>]
PyTuple(elems) == [type |-> "tuple", items |-> elems, text |-> << >>]
\* a float, held as an exact number in the unit of its quantity
PyFloat(x) == [type |-> "float", items |-> << >>, text |-> <<x>>]
\* an instance of a class that is not one of the types above
PyObject(cls) == [type |-> cls, items |-> << >>, text |-> << >>]

\* d[key] of a dict
dict_get(d, key) == d.items[CHOOSE i \in 1..Len(d.items) : d.items[i][1] = key][2]

\* bool(v) of Python, as used by `if cached_result:` and `if cached:`
Truthy(v) ==
    CASE v.type = "NoneType" -> FALSE
      [] v.type \in {"dict", "list", "tuple"} -> v.items # << >>
      [] v.type = "str" -> v.text # << >> /\ v.text # <<"">>
      [] v.type = "int" -> v.text # <<"0">>
      [] v.type = "float" -> v.text # <<0>>
      [] OTHER -> TRUE

(***************************************************************************)
(* Strings that cross a serialization boundary.  A text is either the      *)
(* JSON serialization of a value (valid_json, decoded) or some other       *)
(* string (raw fragments).                                                 *)
(***************************************************************************)
RawText(frags) == [valid_json |-> FALSE, decoded |-> PyNone, raw |-> frags]
\* the JSON value that the text json.dumps writes for v denotes: a tuple is
\* written as an array, the members of a container are written in turn
RECURSIVE json_value(_)
json_value(v) ==
    CASE v.type \in {"list", "tuple"} ->
           PyList([i \in 1..Len(v.items) |-> json_value(v.items[i])])
      [] v.type = "dict" ->
           PyDict([i \in 1..Len(v.items) |-> <<v.items[i][1], json_value(v.items[i][2])>>])
      [] OTHER -> v

\* variant: an empty object is written as null
json_dumps_null(v) ==
    [valid_json |-> TRUE, decoded |-> IF v.items = << >> /\ v.type = "dict" THEN PyNone ELSE json_value(v),
     raw |-> << >>]

\* json.dumps(v): the JSON text of v
json_dumps(v) == [valid_json |-> TRUE, decoded |-> json_value(v), raw |-> << >>]
\* the types json.dumps has an encoding for; on a value that holds an
\* object of any other type it raises TypeError
JsonTypes == {"NoneType", "str", "int", "float", "dict", "list", "tuple"}
RECURSIVE json_dumps_raises(_)
json_dumps_raises(v) ==
    \/ v.type \notin JsonTypes
    \/ v.type \in {"list", "tuple"} /\ \E i \in 1..Len(v.items) : json_dumps_raises(v.items[i])
    \/ v.type = "dict" /\ \E i \in 1..Len(v.items) : json_dumps_raises(v.items[i][2])
\* json.loads(t) is defined on JSON texts only; it raises on any other text
json_loads_raises(t) == ~t.valid_json
json_loads(t) == t.decoded

\* Optional[...]: << >> is None, <<x>> is the value x
Nothing == << >>
Some(x) == <<x>>
IsNone(o) == o = << >>
Get(o) == o[1]

(***************************************************************************)
(* The tool calls the language model can request and the answers the tool  *)
(* server can give.  args is a dict: (key, value) pairs in insertion       *)
(* order.                                                                  *)
(***************************************************************************)
ArgsPrice == << <<"symbol", PyStr(<<"AAPL">>)>> >>
ArgsHistory == << <<"symbol", PyStr(<<"AAPL">>)>>, <<"period", PyStr(<<"1mo">>)>> >>
ArgsHistoryReordered == << <<"period", PyStr(<<"1mo">>)>>, <<"symbol", PyStr(<<"AAPL">>)>> >>

Calls ==
    { [name |-> "get_stock_price", args |-> ArgsPrice],
      [name |-> "get_stock_history", args |-> ArgsHistory],
      [name |-> "get_stock_history", args |-> ArgsHistoryReordered] }

\* the batches of tool calls one assistant message can carry
Batches == UNION { [1..n -> Calls] : n \in 1..MaxBatch }

\* a content item of a CallToolResult: a text chunk, or a chunk without .text
TextItem(t) == [has_text |-> TRUE, text |-> t]
\* a CallToolResult whose content is a list of items
McpList(items, is_error) ==
    [has_content |-> TRUE, is_list |-> TRUE, content |-> items, scalar |-> << >>,
     isError |-> is_error]
\* CallToolResult objects the server can answer with
McpPrice == McpList(<<TextItem(json_dumps(PyDict(<< <<"price", PyInt("100")>> >>)))>>, FALSE)
McpEmptyObject == McpList(<<TextItem(json_dumps(PyDict(<< >>)))>>, FALSE)
McpPlainText == McpList(<<TextItem(RawText(<<"Error executing tool">>))>>, TRUE)
McpResults == {McpPrice, McpEmptyObject, McpPlainText}

VARIABLES
    \* RedisClient._is_available (redis_client.py:15), fixed when the singleton is built
    redis_available,
    \* the key/value store: key -> [value, ex], a key that is absent is not in the domain
    store,
    \* MarketIntelligenceAgent.graph (graph.py:72): None until _build_graph
    graph,
    \* the MemorySaver checkpoints (graph.py:73,126): thread_id -> messages
    memory,
    \* where each session's invoke task stands: idle, agent, tools, rpc
    pc,
    \* the local list tool_messages of _tools_node (graph.py:200)
    tool_messages,
    \* what the last invoke of each session returned
    ret,
    \* len(messages) of the session when its running invoke was entered
    start,
    \* agent-node and tools-node executions of the running invoke
    reasons, acts,
    \* invoke calls made, tool calls issued (bounded by MaxInvokes, MaxCalls)
    invokes, calls,
    \* MCPClientWrapper fields (client.py:26-33)
    session, session_context, http_context, context, is_connected, tools_cache,
    \* where the lifecycle task (initialize / cleanup) stands
    lpc,
    \* initialize/cleanup calls made, connect() calls made
    lifecycle, connect_calls,
    \* "MCP client already connected" warnings logged (client.py:40)
    warnings,
    \* the calls made on the ResponseCache by a direct caller, with what they returned
    cache_log,
    \* time.time() in milliseconds
    now,
    \* check_rate_limit calls made, moves of the clock made
    checks, waits,
    \* what the last check_rate_limit call was made on and what it returned
    limit_ret,
    \* the check_rate_limit call each server process is in, between its read
    \* and its write of the bucket, and what its last call returned
    flight,
    \* the events the event_generator of each session's last /stream request
    \* has yielded, and the stream calls made
    events, streams,
    \* what the rate_limit_middleware answered to the last request, and the
    \* requests it has handled
    http_response, requests,
    \* the CallToolResult objects converted by a direct caller of the
    \* conversion of _tools_node, with the results
    converted,
    \* the count a caller keeps of the allowed checks on one key, from the
    \* time it began to count
    window

agent_vars == <<graph, memory, pc, tool_messages, ret, start, reasons, acts, invokes, calls>>
client_vars == <<session, session_context, http_context, context, is_connected, tools_cache>>
life_vars == <<lpc, lifecycle, connect_calls, warnings>>
store_vars == <<redis_available, store>>
limiter_vars == <<now, checks, waits, limit_ret, flight>>
stream_vars == <<events, streams>>
http_vars == <<http_response, requests>>
convert_vars == <<converted>>
window_vars == <<window>>
api_vars == <<cache_log, limiter_vars, stream_vars, http_vars, convert_vars, window_vars>>
vars == <<store_vars, agent_vars, client_vars, life_vars, api_vars>>

(***************************************************************************)
(* RedisClient (utils/redis_client.py).  fail says that the call to the    *)
(* store raises; get and set catch it.                                     *)
(***************************************************************************)
\* variant: the stored string is returned also when the call to the store fails
redis_get_unguarded(key, fail) ==
    IF key \in DOMAIN store THEN Some(store[key].value) ELSE Nothing

\* RedisClient.get: the stored string, or None
redis_get(key, fail) ==
    IF ~redis_available THEN Nothing
    ELSE IF fail THEN Nothing
    ELSE IF key \in DOMAIN store THEN Some(store[key].value) ELSE Nothing

\* RedisClient.set: the store after the call (setex when ex is given)
redis_set_store(key, value, ex, fail) ==
    IF ~redis_available \/ fail THEN store
    ELSE [k \in (DOMAIN store) \cup {key} |-> IF k = key THEN [value |-> value, ex |-> ex] ELSE store[k]]

\* RedisClient.set: its return value
redis_set_ok(fail) == redis_available /\ ~fail

\* RedisClient.delete: the store after the call
redis_delete_store(key, fail) ==
    IF ~redis_available \/ fail THEN store
    ELSE [k \in (DOMAIN store) \ {key} |-> store[k]]

\* RedisClient.delete: its return value
redis_delete_ok(fail) == redis_available /\ ~fail

(***************************************************************************)
(* ResponseCache (utils/cache.py).                                         *)
(***************************************************************************)
\* ResponseCache.enabled, read from the singleton at construction
cache_enabled == redis_available

default_ttl == 300

\* Python's order on the argument names that occur
KeyOrder == <<"limit", "period", "query", "symbol", "symbols">>
KeyRank(k) == CHOOSE i \in 1..Len(KeyOrder) : KeyOrder[i] = k

\* insert one (key, value) pair into a list sorted by key
RECURSIVE InsertSorted(_, _)
InsertSorted(item, sorted) ==
    IF sorted = << >> THEN <<item>>
    ELSE IF KeyRank(item[1]) <= KeyRank(Head(sorted)[1]) THEN <<item>> \o sorted
    ELSE <<Head(sorted)>> \o InsertSorted(item, Tail(sorted))

\* sorted(kwargs.items())
RECURSIVE sorted_items(_)
sorted_items(kwargs) ==
    IF kwargs = << >> THEN << >>
    ELSE InsertSorted(Head(kwargs), sorted_items(Tail(kwargs)))

\* hashlib.sha256(data).hexdigest()[:16], taken to be collision-free
sha256_prefix16(data) == <<"sha256/16", data>>

\* variant: the arguments are hashed in their insertion order
make_key_unsorted(prefix, kwargs) == <<"cache", prefix, sha256_prefix16(kwargs)>>

\* ResponseCache._make_key
make_key(prefix, kwargs) == <<"cache", prefix, sha256_prefix16(sorted_items(kwargs))>>

\* a Python str is true when it is not empty; a JSON text never is empty
StrTruthy(t) == t.valid_json \/ (t.raw # << >> /\ t.raw # <<"">>)

\* ResponseCache.get: Optional value
cache_get(prefix, kwargs, fail) ==
    IF ~cache_enabled THEN Nothing
    ELSE LET cached == redis_get(make_key(prefix, kwargs), fail)
         IN  IF ~IsNone(cached) /\ StrTruthy(Get(cached))
             THEN IF json_loads_raises(Get(cached)) THEN Nothing
                  ELSE Some(json_loads(Get(cached)))
             ELSE Nothing

\* ResponseCache.set: the store after the call
cache_set_store(prefix, value, ttl, kwargs, fail) ==
    IF ~cache_enabled THEN store
    ELSE redis_set_store(make_key(prefix, kwargs), json_dumps(value),
                         IF ttl # 0 THEN ttl ELSE default_ttl, fail)

\* ResponseCache.set: its return value
cache_set_ok(fail) == cache_enabled /\ redis_set_ok(fail)

\* ResponseCache.delete: the store after the call
cache_delete_store(prefix, kwargs, fail) ==
    IF ~cache_enabled THEN store
    ELSE redis_delete_store(make_key(prefix, kwargs), fail)

\* ResponseCache.delete: its return value
cache_delete_ok(fail) == cache_enabled /\ redis_delete_ok(fail)

(***************************************************************************)
(* Messages (langchain_core.messages) and the state reducer.               *)
(***************************************************************************)
NoId == << >>
HumanMessage(content) ==
    [type |-> "human", content |-> content, tool_calls |-> << >>, tool_call_id |-> NoId, name |-> ""]
AIMessage(content, tool_calls) ==
    [type |-> "ai", content |-> content, tool_calls |-> tool_calls, tool_call_id |-> NoId, name |-> ""]
ToolMessage(content, tool_call_id, name) ==
    [type |-> "tool", content |-> content, tool_calls |-> << >>, tool_call_id |-> tool_call_id, name |-> name]

\* variant: the new messages take the place of the old ones
add_messages_replace(left, right) == right

\* add_messages (agent/state.py:10): the new messages go after the old ones
add_messages(left, right) == left \o right

Last(seq) == seq[Len(seq)]

\* the tool calls of a batch, as the assistant message at position pos carries them
WithIds(batch, pos) ==
    [i \in 1..Len(batch) |-> [id |-> <<pos, i>>, name |-> batch[i].name, args |-> batch[i].args]]

UserQuestion == RawText(<<"price of AAPL">>)
PlainAnswer == RawText(<<"AAPL trades at 100">>)
NoContent == RawText(<< >>)
LlmError == "model call failed"
TransportError == "Connection closed"
NoSessionError == "MCP session not initialized. Use 'async with' context manager."
NoGraphError == "'NoneType' object has no attribute 'ainvoke'"

(***************************************************************************)
(* MarketIntelligenceAgent (agent/graph.py).                               *)
(***************************************************************************)
\* variant: the error AIMessage asks for the tools again
agent_error_message_retry(e) ==
    AIMessage(RawText(<<"I encountered an error while processing your request: ", e>>),
              <<[id |-> <<0, 1>>, name |-> "get_stock_price", args |-> ArgsPrice]>>)

\* the AIMessage _agent_node builds when the model call raises
agent_error_message(e) ==
    AIMessage(RawText(<<"I encountered an error while processing your request: ", e>>), << >>)

\* variant: the first message is inspected instead of the last
should_continue_first(messages) ==
    IF messages[1].tool_calls # << >> THEN "continue" ELSE "end"

\* _should_continue
should_continue(messages) ==
    IF Last(messages).tool_calls # << >> THEN "continue" ELSE "end"

\* the loop over mcp_result.content of _tools_node: the last text item decides
RECURSIVE fold_items(_, _)
fold_items(items, result) ==
    IF items = << >> THEN result
    ELSE LET item == Head(items)
             next == IF item.has_text
                     THEN IF json_loads_raises(item.text)
                          THEN PyDict(<< <<"result", PyStr(item.text.raw)>> >>)
                          ELSE json_loads(item.text)
                     ELSE result
         IN  fold_items(Tail(items), next)

\* the extraction of the result from the CallToolResult in _tools_node
extract_result(mcp_result) ==
    IF mcp_result.has_content
       /\ (IF mcp_result.is_list THEN mcp_result.content # << >> ELSE mcp_result.scalar # << >>)
    THEN IF mcp_result.is_list
         THEN fold_items(mcp_result.content, PyDict(<< >>))
         ELSE PyDict(<< <<"result", PyStr(mcp_result.scalar)>> >>)
    ELSE PyDict(<< <<"result", PyStr(<<"str(mcp_result)">>)>> >>)

\* the ToolMessage of a resolved tool call
tool_result_message(tool_call, result) ==
    ToolMessage(json_dumps(result), tool_call.id, tool_call.name)

\* variant: the error payload does not name the tool
tool_error_message_no_tool(tool_call, e) ==
    ToolMessage(json_dumps(PyDict(<< <<"error", PyStr(<<e>>)>> >>)), tool_call.id, tool_call.name)

\* variant: the error ToolMessage is not tagged with the id of its tool call
tool_error_message_untagged(tool_call, e) ==
    ToolMessage(json_dumps(PyDict(<< <<"error", PyStr(<<e>>)>>, <<"tool", PyStr(<<tool_call.name>>)>> >>)),
                NoId, tool_call.name)

\* the ToolMessage the except branch of _tools_node builds
tool_error_message(tool_call, e) ==
    ToolMessage(json_dumps(PyDict(<< <<"error", PyStr(<<e>>)>>, <<"tool", PyStr(<<tool_call.name>>)>> >>)),
                tool_call.id, tool_call.name)

\* `if cached_result:` of _tools_node
cache_hit(cached_result) == ~IsNone(cached_result) /\ Truthy(Get(cached_result))

\* the names of the tool calls of the AIMessages of a message list (invoke)
RECURSIVE tools_used_of(_)
tools_used_of(messages) ==
    IF messages = << >> THEN << >>
    ELSE LET msg == Head(messages)
             names == IF msg.type = "ai" /\ msg.tool_calls # << >>
                      THEN [i \in 1..Len(msg.tool_calls) |-> msg.tool_calls[i].name]
                      ELSE << >>
         IN  names \o tools_used_of(Tail(messages))

\* the tuple invoke returns from the final state
invoke_result(messages) ==
    [returned |-> TRUE, failed |-> FALSE,
     response_text |-> Last(messages).content,
     tools_used |-> tools_used_of(messages)]

\* variant: the except branch returns no text
invoke_error_blank(e) ==
    [returned |-> TRUE, failed |-> TRUE, response_text |-> NoContent, tools_used |-> << >>]

\* the tuple invoke returns from its except branch
invoke_error(e) ==
    [returned |-> TRUE, failed |-> TRUE,
     response_text |-> RawText(<<"I encountered an error: ", e>>),
     tools_used |-> << >>]

NotReturned ==
    [returned |-> FALSE, failed |-> FALSE, response_text |-> NoContent, tools_used |-> << >>]

\* variant: the tool calls of the batch are taken from the last to the first
current_call_backwards(s) ==
    Last(memory[s]).tool_calls[Len(Last(memory[s]).tool_calls) - Len(tool_messages[s])]

\* the tool call _tools_node is working on
current_call(s) == Last(memory[s]).tool_calls[Len(tool_messages[s]) + 1]

(***************************************************************************)
(* TokenBucketRateLimiter (utils/rate_limiter.py).  Time is counted in     *)
(* milliseconds and tokens in parts of TokenUnit per token, so that the    *)
(* refill of requests_per_minute / 60 tokens per second is requests_per_   *)
(* minute parts per millisecond and the arithmetic is exact.               *)
(***************************************************************************)
TokenUnit == 60000

\* TokenBucketRateLimiter.__init__
TokenBucketRateLimiter(requests_per_minute, burst) ==
    [requests_per_minute |-> requests_per_minute,
     burst |-> burst,
     capacity |-> requests_per_minute + burst]

\* RateLimitPresets
NORMAL == TokenBucketRateLimiter(10, 5)
STREAMING == TokenBucketRateLimiter(5, 2)
GENEROUS == TokenBucketRateLimiter(30, 10)

\* TokenBucketRateLimiter.enabled, read from the singleton at construction
limiter_enabled == redis_available

\* 1 / refill_rate, in milliseconds
RefillMs(limiter) == TokenUnit \div limiter.requests_per_minute

\* variant: the key does not name the identifier
get_key_shared(identifier, endpoint) == "ratelimit:" \o endpoint

\* TokenBucketRateLimiter._get_key: the f-string ratelimit:{endpoint}:{identifier}
get_key(identifier, endpoint) == "ratelimit:" \o endpoint \o ":" \o identifier

Min(a, b) == IF a <= b THEN a ELSE b

\* the bucket that is written to the store
Bucket(tokens, last_refill) ==
    PyDict(<< <<"tokens", PyFloat(tokens)>>, <<"last_refill", PyFloat(last_refill)>> >>)

\* variant: the refilled count is not clamped to the capacity
refill_unclamped(limiter, bucket, current_time) ==
    IF IsNone(bucket) THEN limiter.capacity * TokenUnit
    ELSE dict_get(Get(bucket), "tokens").text[1]
         + (current_time - dict_get(Get(bucket), "last_refill").text[1]) * limiter.requests_per_minute

\* variant: the bucket refills at half the rate
refill_half(limiter, bucket, current_time) ==
    IF IsNone(bucket) THEN limiter.capacity * TokenUnit
    ELSE Min(limiter.capacity * TokenUnit,
             dict_get(Get(bucket), "tokens").text[1]
             + ((current_time - dict_get(Get(bucket), "last_refill").text[1])
                * limiter.requests_per_minute) \div 2)

\* variant: only whole tokens are added
refill_whole(limiter, bucket, current_time) ==
    IF IsNone(bucket) THEN limiter.capacity * TokenUnit
    ELSE Min(limiter.capacity * TokenUnit,
             dict_get(Get(bucket), "tokens").text[1]
             + (((current_time - dict_get(Get(bucket), "last_refill").text[1])
                 * limiter.requests_per_minute) \div TokenUnit) * TokenUnit)

\* variant: the bucket refills at twice the rate
refill_double(limiter, bucket, current_time) ==
    IF IsNone(bucket) THEN limiter.capacity * TokenUnit
    ELSE Min(limiter.capacity * TokenUnit,
             dict_get(Get(bucket), "tokens").text[1]
             + (current_time - dict_get(Get(bucket), "last_refill").text[1])
               * limiter.requests_per_minute * 2)

\* the token count after the refill (rate_limiter.py:88-101): bucket is the
\* stored bucket, or None when there is none
refill(limiter, bucket, current_time) ==
    LET tokens == IF IsNone(bucket) THEN limiter.capacity * TokenUnit
                  ELSE dict_get(Get(bucket), "tokens").text[1]
        last_refill == IF IsNone(bucket) THEN current_time
                       ELSE dict_get(Get(bucket), "last_refill").text[1]
        time_elapsed == current_time - last_refill
        tokens_to_add == time_elapsed * limiter.requests_per_minute
    IN  Min(limiter.capacity * TokenUnit, tokens + tokens_to_add)

\* variant: an allowed request does not consume its token
decide_keep(limiter, refilled) ==
    LET allowed == refilled >= TokenUnit
        tokens_needed == IF ~allowed THEN TokenUnit - refilled ELSE 0
    IN  [allowed |-> allowed, tokens |-> refilled, remaining |-> refilled \div TokenUnit,
         reset_in |-> (tokens_needed \div (1000 * limiter.requests_per_minute)) + 1,
         limit |-> Some(limiter.requests_per_minute), error |-> FALSE]

\* variant: the count that is kept is a whole number of tokens
decide_whole(limiter, refilled) ==
    LET allowed == refilled >= TokenUnit
        tokens == IF allowed THEN refilled - TokenUnit ELSE 0
    IN  [allowed |-> allowed, tokens |-> tokens, remaining |-> tokens \div TokenUnit,
         reset_in |-> 1, limit |-> Some(limiter.requests_per_minute), error |-> FALSE]

\* the decision and the rate_limit_info computed from the refilled count
\* (rate_limiter.py:103-131)
decide(limiter, refilled) ==
    LET allowed == refilled >= TokenUnit
        tokens == IF allowed THEN refilled - TokenUnit ELSE refilled
        tokens_needed == IF ~allowed THEN TokenUnit - tokens ELSE 0
        reset_in == IF tokens < limiter.capacity * TokenUnit
                    THEN (tokens_needed \div (1000 * limiter.requests_per_minute)) + 1
                    ELSE 0
    IN  [allowed |-> allowed, tokens |-> tokens, remaining |-> tokens \div TokenUnit,
         reset_in |-> reset_in, limit |-> Some(limiter.requests_per_minute), error |-> FALSE]

\* variant: a limiter that is not enabled denies
pass_through_deny(limiter) ==
    [allowed |-> FALSE, tokens |-> 0, remaining |-> 0, reset_in |-> 1, limit |-> Nothing, error |-> FALSE]

\* what check_rate_limit returns when the limiter is not enabled
pass_through(limiter) ==
    [allowed |-> TRUE, tokens |-> limiter.capacity * TokenUnit, remaining |-> limiter.capacity,
     reset_in |-> 0, limit |-> Nothing, error |-> FALSE]

\* no check_rate_limit call made yet
NoCheck ==
    [key |-> "", limiter |-> STREAMING, at |-> 0, read |-> Nothing, wrote |-> FALSE,
     info |-> pass_through(STREAMING)]

\* the server processes that share the store (redis_client.py:26-34)
Workers == {"w1", "w2"}

\* a process that is in no check_rate_limit call and has made none
NoFlight ==
    [busy |-> FALSE, key |-> "", limiter |-> STREAMING, at |-> 0, read |-> Nothing,
     info |-> pass_through(STREAMING)]

\* no count of allowed checks is kept
NoWindow == [open |-> FALSE, key |-> "", start |-> 0, allowed |-> 0]

\* no request handled yet
NoResponse == [status |-> "none", retry_after |-> 0, limit |-> Nothing, handler |-> None]

Init ==
    /\ redis_available \in BOOLEAN
    /\ store = [k \in {} |-> 0]
    /\ graph = None
    /\ memory = [s \in Sessions |-> << >>]
    /\ pc = [s \in Sessions |-> "idle"]
    /\ tool_messages = [s \in Sessions |-> << >>]
    /\ ret = [s \in Sessions |-> NotReturned]
    /\ start = [s \in Sessions |-> 0]
    /\ reasons = [s \in Sessions |-> 0]
    /\ acts = [s \in Sessions |-> 0]
    /\ invokes = 0
    /\ calls = 0
    /\ session = None
    /\ session_context = None
    /\ http_context = None
    /\ context = None
    /\ is_connected = FALSE
    /\ tools_cache = << >>
    /\ lpc = "idle"
    /\ lifecycle = 0
    /\ connect_calls = 0
    /\ warnings = 0
    /\ cache_log = << >>
    /\ now = 0
    /\ checks = 0
    /\ waits = 0
    /\ limit_ret = NoCheck
    /\ flight = [w \in Workers |-> NoFlight]
    /\ events = [s \in Sessions |-> << >>]
    /\ streams = 0
    /\ http_response = NoResponse
    /\ requests = 0
    /\ converted = << >>
    /\ window = NoWindow

\* variant: every call runs on one thread_id, whatever its session_id
Invoke_one_thread(s) ==
    /\ pc[s] = "idle"
    /\ invokes < MaxInvokes
    /\ invokes' = invokes + 1
    /\ IF graph = None
       THEN /\ ret' = [ret EXCEPT ![s] = invoke_error(NoGraphError)]
            /\ UNCHANGED <<memory, pc, start, reasons, acts>>
       ELSE /\ memory' = [o \in Sessions |-> add_messages(memory[o], <<HumanMessage(UserQuestion)>>)]
            /\ pc' = [pc EXCEPT ![s] = "agent"]
            /\ start' = [start EXCEPT ![s] = Len(memory[s])]
            /\ reasons' = [reasons EXCEPT ![s] = 0]
            /\ acts' = [acts EXCEPT ![s] = 0]
            /\ ret' = [ret EXCEPT ![s] = NotReturned]
    /\ UNCHANGED <<graph, tool_messages, calls, store_vars, client_vars, life_vars, api_vars>>

\* invoke, up to the first await inside graph.ainvoke
Invoke(s) ==
    /\ pc[s] = "idle"
    /\ invokes < MaxInvokes
    /\ invokes' = invokes + 1
    /\ IF graph = None
       THEN /\ ret' = [ret EXCEPT ![s] = invoke_error(NoGraphError)]
            /\ UNCHANGED <<memory, pc, start, reasons, acts>>
       ELSE /\ memory' = [memory EXCEPT ![s] = add_messages(@, <<HumanMessage(UserQuestion)>>)]
            /\ pc' = [pc EXCEPT ![s] = "agent"]
            /\ start' = [start EXCEPT ![s] = Len(memory[s])]
            /\ reasons' = [reasons EXCEPT ![s] = 0]
            /\ acts' = [acts EXCEPT ![s] = 0]
            /\ ret' = [ret EXCEPT ![s] = NotReturned]
    /\ UNCHANGED <<graph, tool_messages, calls, store_vars, client_vars, life_vars, api_vars>>

\* _agent_node when the model call returns or raises, then _should_continue,
\* then (on "end") the rest of invoke
AgentNode(s, llm_ok, batch) ==
    /\ pc[s] = "agent"
    /\ llm_ok \/ batch = << >>
    /\ batch # << >> => acts[s] < MaxRounds /\ calls + Len(batch) <= MaxCalls
    /\ LET response == IF llm_ok
                        THEN AIMessage(IF batch = << >> THEN PlainAnswer ELSE NoContent,
                                       WithIds(batch, Len(memory[s]) + 1))
                        ELSE agent_error_message(LlmError)
           messages == add_messages(memory[s], <<response>>)
       IN  /\ memory' = [memory EXCEPT ![s] = messages]
           /\ reasons' = [reasons EXCEPT ![s] = @ + 1]
           /\ calls' = calls + Len(batch)
           /\ IF should_continue(messages) = "continue"
              THEN /\ pc' = [pc EXCEPT ![s] = "tools"]
                   /\ UNCHANGED ret
              ELSE /\ pc' = [pc EXCEPT ![s] = "idle"]
                   /\ ret' = [ret EXCEPT ![s] = invoke_result(messages)]
    /\ UNCHANGED <<graph, tool_messages, start, acts, invokes, store_vars, client_vars, life_vars, api_vars>>

\* one more ToolMessage of the batch: the node returns when the batch is done
Resolved(s, tool_message) ==
    LET done == Append(tool_messages[s], tool_message)
    IN  IF Len(done) = Len(Last(memory[s]).tool_calls)
        THEN /\ memory' = [memory EXCEPT ![s] = add_messages(@, done)]
             /\ tool_messages' = [tool_messages EXCEPT ![s] = << >>]
             /\ acts' = [acts EXCEPT ![s] = @ + 1]
             /\ pc' = [pc EXCEPT ![s] = "agent"]
        ELSE /\ tool_messages' = [tool_messages EXCEPT ![s] = done]
             /\ pc' = [pc EXCEPT ![s] = "tools"]
             /\ UNCHANGED <<memory, acts>>

\* _tools_node for one tool call, up to the await of call_tool: the cache
\* lookup, and call_tool up to session.call_tool
ToolsCall(s, get_fails) ==
    /\ pc[s] = "tools"
    /\ LET tool_call == current_call(s)
           cached_result == cache_get(tool_call.name, tool_call.args, get_fails)
       IN  IF cache_hit(cached_result)
           THEN Resolved(s, tool_result_message(tool_call, Get(cached_result)))
           ELSE IF session = None
           THEN Resolved(s, tool_error_message(tool_call, NoSessionError))
           ELSE /\ pc' = [pc EXCEPT ![s] = "rpc"]
                /\ UNCHANGED <<memory, tool_messages, acts>>
    /\ UNCHANGED <<graph, ret, start, reasons, invokes, calls, store_vars, client_vars, life_vars, api_vars>>

\* session.call_tool returns: the result is extracted, cached and wrapped
RpcReturn(s, mcp_result, set_fails) ==
    /\ pc[s] = "rpc"
    /\ LET tool_call == current_call(s)
           result == extract_result(mcp_result)
       IN  /\ store' = cache_set_store(tool_call.name, result, 300, tool_call.args, set_fails)
           /\ Resolved(s, tool_result_message(tool_call, result))
    /\ UNCHANGED <<redis_available, graph, ret, start, reasons, invokes, calls, client_vars, life_vars, api_vars>>

\* variant: the failed call is handed back to the tools node and issued again
RpcRaise_reissue(s) ==
    /\ pc[s] = "rpc"
    /\ pc' = [pc EXCEPT ![s] = "tools"]
    /\ UNCHANGED <<memory, tool_messages, acts>>
    /\ UNCHANGED <<graph, ret, start, reasons, invokes, calls, store_vars, client_vars, life_vars, api_vars>>

\* session.call_tool raises: call_tool re-raises, _tools_node records the error
RpcRaise(s) ==
    /\ pc[s] = "rpc"
    /\ Resolved(s, tool_error_message(current_call(s), TransportError))
    /\ UNCHANGED <<graph, ret, start, reasons, invokes, calls, store_vars, client_vars, life_vars, api_vars>>

\* the store drops an entry whose TTL ran out
Expire(key) ==
    /\ key \in DOMAIN store
    /\ store' = [k \in (DOMAIN store) \ {key} |-> store[k]]
    /\ UNCHANGED <<redis_available, agent_vars, client_vars, life_vars, api_vars>>

(***************************************************************************)
(* MCPClientWrapper (mcp_client/client.py), transport_protocol "http",     *)
(* driven by MarketIntelligenceAgent.initialize and cleanup.               *)
(***************************************************************************)
ToolList == <<"get_stock_price", "get_market_news", "get_stock_history", "compare_stocks", "get_market_summary">>

\* disconnect, up to its first await
DisconnectEnter ==
    IF ~is_connected /\ session = None
    THEN /\ lpc' = "idle"
         /\ UNCHANGED client_vars
    ELSE IF session_context # None
    THEN /\ lpc' = "d_session"
         /\ UNCHANGED client_vars
    ELSE IF http_context # None
    THEN /\ lpc' = "d_transport"
         /\ UNCHANGED client_vars
    ELSE /\ lpc' = "idle"
         /\ context' = None
         /\ is_connected' = FALSE
         /\ UNCHANGED <<session, session_context, http_context, tools_cache>>

\* variant: connect opens a new transport also when the client is connected
InitializeEnter_reconnect ==
    /\ lpc = "idle"
    /\ lifecycle < MaxLifecycle
    /\ lifecycle' = lifecycle + 1
    /\ connect_calls' = connect_calls + 1
    /\ http_context' = "streamablehttp_client"
    /\ lpc' = "c_transport"
    /\ UNCHANGED <<warnings, graph, session, session_context, context, is_connected, tools_cache>>
    /\ UNCHANGED <<memory, pc, tool_messages, ret, start, reasons, acts, invokes, calls, store_vars, api_vars>>

\* initialize: connect up to its first await; when connect returns at once
\* (already connected) _build_graph follows; bound limits the lifecycle calls
InitializeCall(bound) ==
    /\ lpc = "idle"
    /\ lifecycle < bound
    /\ lifecycle' = lifecycle + 1
    /\ connect_calls' = connect_calls + 1
    /\ IF is_connected
       THEN /\ warnings' = warnings + 1
            /\ graph' = "compiled"
            /\ UNCHANGED <<lpc, client_vars>>
       ELSE /\ http_context' = "streamablehttp_client"
            /\ lpc' = "c_transport"
            /\ UNCHANGED <<warnings, graph, session, session_context, context, is_connected, tools_cache>>
    /\ UNCHANGED <<memory, pc, tool_messages, ret, start, reasons, acts, invokes, calls, store_vars, api_vars>>

InitializeEnter == InitializeCall(MaxLifecycle)

\* connect: self._http_context.__aenter__() returns or raises
ConnectTransport ==
    /\ lpc = "c_transport"
    /\ \E ok \in BOOLEAN :
         IF ok
         THEN /\ context' = "read_write"
              /\ session_context' = "ClientSession"
              /\ lpc' = "c_session"
              /\ UNCHANGED <<session, http_context, is_connected, tools_cache>>
         ELSE DisconnectEnter
    /\ UNCHANGED <<lifecycle, connect_calls, warnings, agent_vars, store_vars, api_vars>>

\* connect: self._session_context.__aenter__() returns or raises
ConnectSession ==
    /\ lpc = "c_session"
    /\ \E ok \in BOOLEAN :
         IF ok
         THEN /\ session' = "session"
              /\ lpc' = "c_initialize"
              /\ UNCHANGED <<session_context, http_context, context, is_connected, tools_cache>>
         ELSE DisconnectEnter
    /\ UNCHANGED <<lifecycle, connect_calls, warnings, agent_vars, store_vars, api_vars>>

\* connect: self.session.initialize() returns or raises
ConnectInitialize ==
    /\ lpc = "c_initialize"
    /\ \E ok \in BOOLEAN :
         IF ok
         THEN /\ lpc' = "c_list_tools"
              /\ UNCHANGED client_vars
         ELSE DisconnectEnter
    /\ UNCHANGED <<lifecycle, connect_calls, warnings, agent_vars, store_vars, api_vars>>

\* connect: self.session.list_tools() returns or raises; when connect returns,
\* initialize builds the graph
ConnectListTools ==
    /\ lpc = "c_list_tools"
    /\ \E ok \in BOOLEAN :
         IF ok
         THEN /\ tools_cache' = ToolList
              /\ is_connected' = TRUE
              /\ graph' = "compiled"
              /\ lpc' = "idle"
              /\ UNCHANGED <<session, session_context, http_context, context>>
         ELSE /\ DisconnectEnter
              /\ UNCHANGED graph
    /\ UNCHANGED <<lifecycle, connect_calls, warnings, memory, pc, tool_messages, ret, start, reasons, acts,
                   invokes, calls, store_vars, api_vars>>

\* cleanup: disconnect up to its first await; bound limits the lifecycle calls
CleanupCall(bound) ==
    /\ lpc = "idle"
    /\ lifecycle < bound
    /\ lifecycle' = lifecycle + 1
    /\ DisconnectEnter
    /\ UNCHANGED <<connect_calls, warnings, agent_vars, store_vars, api_vars>>

CleanupEnter == CleanupCall(MaxLifecycle)

\* disconnect: self._session_context.__aexit__ returns or raises (logged)
DisconnectSession ==
    /\ lpc = "d_session"
    /\ session_context' = None
    /\ session' = None
    /\ IF http_context # None
       THEN /\ lpc' = "d_transport"
            /\ UNCHANGED <<http_context, context, is_connected, tools_cache>>
       ELSE /\ lpc' = "idle"
            /\ context' = None
            /\ is_connected' = FALSE
            /\ UNCHANGED <<http_context, tools_cache>>
    /\ UNCHANGED <<lifecycle, connect_calls, warnings, agent_vars, store_vars, api_vars>>

\* disconnect: self._http_context.__aexit__ returns or raises (logged)
DisconnectTransport ==
    /\ lpc = "d_transport"
    /\ http_context' = None
    /\ context' = None
    /\ is_connected' = FALSE
    /\ lpc' = "idle"
    /\ UNCHANGED <<session, session_context, tools_cache, lifecycle, connect_calls, warnings, agent_vars, store_vars, api_vars>>

Next ==
    \/ \E s \in Sessions : Invoke(s)
    \/ \E s \in Sessions, llm_ok \in BOOLEAN, batch \in {<< >>} \cup Batches : AgentNode(s, llm_ok, batch)
    \/ \E s \in Sessions, get_fails \in BOOLEAN : ToolsCall(s, get_fails)
    \/ \E s \in Sessions, mcp_result \in McpResults, set_fails \in BOOLEAN : RpcReturn(s, mcp_result, set_fails)
    \/ \E s \in Sessions : RpcRaise(s)
    \/ \E key \in DOMAIN store : Expire(key)
    \/ InitializeEnter
    \/ ConnectTransport
    \/ ConnectSession
    \/ ConnectInitialize
    \/ ConnectListTools
    \/ CleanupEnter
    \/ DisconnectSession
    \/ DisconnectTransport

Spec == Init /\ [][Next]_vars

(***************************************************************************)
(* ResponseCache called directly: set, get and delete with arguments from  *)
(* bounded sets, no time passing between the calls.                        *)
(***************************************************************************)
ArgsPriceOther == << <<"symbol", PyStr(<<"MSFT">>)>> >>
Prefixes == {"get_stock_price", "get_stock_history"}
ArgSets == {ArgsPrice, ArgsPriceOther, ArgsHistory, ArgsHistoryReordered}
\* ttl arguments: 0 stands for the default None
Ttls == {0, 60}
PriceValue == PyDict(<< <<"price", PyInt("100")>> >>)
TupleValue == PyDict(<< <<"range", PyTuple(<<PyInt("1"), PyInt("2")>>)>> >>)
CacheValues == {PriceValue, PyDict(<< >>), TupleValue}

\* one entry of cache_log
CacheCall(op, prefix, kwargs, value, fail, ok, result) ==
    [op |-> op, prefix |-> prefix, kwargs |-> kwargs, value |-> value, fail |-> fail,
     ok |-> ok, result |-> result]

\* ResponseCache.set
CacheSet(prefix, value, ttl, kwargs, fail) ==
    /\ Len(cache_log) < MaxCacheOps
    /\ store' = cache_set_store(prefix, value, ttl, kwargs, fail)
    /\ cache_log' = Append(cache_log, CacheCall("set", prefix, kwargs, Some(value), fail, cache_set_ok(fail), Nothing))
    /\ UNCHANGED <<redis_available, agent_vars, client_vars, life_vars, limiter_vars, stream_vars, http_vars, convert_vars, window_vars>>

\* ResponseCache.get
CacheGet(prefix, kwargs, fail) ==
    /\ Len(cache_log) < MaxCacheOps
    /\ LET result == cache_get(prefix, kwargs, fail)
       IN  cache_log' = Append(cache_log, CacheCall("get", prefix, kwargs, Nothing, fail, ~IsNone(result), result))
    /\ UNCHANGED <<store_vars, agent_vars, client_vars, life_vars, limiter_vars, stream_vars, http_vars, convert_vars, window_vars>>

\* ResponseCache.delete
CacheDelete(prefix, kwargs, fail) ==
    /\ Len(cache_log) < MaxCacheOps
    /\ store' = cache_delete_store(prefix, kwargs, fail)
    /\ cache_log' = Append(cache_log, CacheCall("delete", prefix, kwargs, Nothing, fail, cache_delete_ok(fail), Nothing))
    /\ UNCHANGED <<redis_available, agent_vars, client_vars, life_vars, limiter_vars, stream_vars, http_vars, convert_vars, window_vars>>

NextCache ==
    \/ \E prefix \in Prefixes, value \in CacheValues, ttl \in Ttls, kwargs \in ArgSets, fail \in BOOLEAN :
         CacheSet(prefix, value, ttl, kwargs, fail)
    \/ \E prefix \in Prefixes, kwargs \in ArgSets, fail \in BOOLEAN : CacheGet(prefix, kwargs, fail)
    \/ \E prefix \in Prefixes, kwargs \in ArgSets, fail \in BOOLEAN : CacheDelete(prefix, kwargs, fail)

SpecCache == Init /\ [][NextCache]_vars

(***************************************************************************)
(* TokenBucketRateLimiter called directly, with the clock moving between   *)
(* the calls.  The limiters and their endpoints are those of main.py.      *)
(***************************************************************************)
Identifiers == {"10.0.0.1", "10.0.0.2"}
\* the limiter of each rate-limited endpoint (main.py:37-38, 111-131)
Endpoints == {"/stream"}
limiter_of(endpoint) == IF endpoint = "/stream" THEN STREAMING ELSE NORMAL
\* the steps of the clock, in milliseconds
Waits == {5000, RefillMs(STREAMING), 300 * 1000}

\* the bucket json.loads gives for the stored string, or None
stored_bucket(bucket_data) ==
    IF ~IsNone(bucket_data) /\ StrTruthy(Get(bucket_data))
    THEN Some(json_loads(Get(bucket_data)))
    ELSE Nothing

\* the count of the allowed checks after a check on key has returned
counted(key, allowed) ==
    IF window.open /\ window.key = key /\ allowed
    THEN [window EXCEPT !.allowed = @ + 1]
    ELSE window

\* TokenBucketRateLimiter.check_rate_limit
Check(identifier, endpoint, get_fails, set_fails) ==
    /\ checks < MaxChecks
    /\ checks' = checks + 1
    /\ LET limiter == limiter_of(endpoint)
           key == get_key(identifier, endpoint)
       IN  IF ~limiter_enabled
           THEN /\ limit_ret' = [key |-> key, limiter |-> limiter, at |-> now, read |-> Nothing,
                                 wrote |-> FALSE, info |-> pass_through(limiter)]
                /\ UNCHANGED store
           ELSE LET current_time == now
                    bucket == stored_bucket(redis_get(key, get_fails))
                    info == decide(limiter, refill(limiter, bucket, current_time))
                IN  /\ store' = redis_set_store(key, json_dumps(Bucket(info.tokens, current_time)),
                                                300, set_fails)
                    /\ limit_ret' = [key |-> key, limiter |-> limiter, at |-> now, read |-> bucket,
                                     wrote |-> redis_set_ok(set_fails), info |-> info]
    /\ window' = counted(limit_ret'.key, limit_ret'.info.allowed)
    /\ UNCHANGED <<redis_available, now, waits, flight, cache_log, stream_vars, http_vars, convert_vars, agent_vars, client_vars, life_vars>>

\* the clock moves; the store drops the buckets whose TTL has run out
Wait(dt) ==
    /\ waits < MaxWaits
    /\ waits' = waits + 1
    /\ now' = now + dt
    /\ store' = [k \in {k \in DOMAIN store :
                          dict_get(json_loads(store[k].value), "last_refill").text[1]
                            + store[k].ex * 1000 > now + dt}
                   |-> store[k]]
    /\ UNCHANGED <<redis_available, checks, limit_ret, flight, cache_log, stream_vars, http_vars, convert_vars, window_vars, agent_vars, client_vars, life_vars>>

NextLimiter ==
    \/ \E identifier \in Identifiers, endpoint \in Endpoints, get_fails \in BOOLEAN, set_fails \in BOOLEAN :
         Check(identifier, endpoint, get_fails, set_fails)
    \/ \E dt \in Waits : Wait(dt)

SpecLimiter == Init /\ [][NextLimiter]_vars

(***************************************************************************)
(* check_rate_limit called by two server processes on one store.  Within   *)
(* one process a call runs from its first line to its return without an    *)
(* await; the read and the write of the bucket are two requests to the     *)
(* store, and a request of the other process can be served between them.   *)
(***************************************************************************)
RaceIdentifiers == {"10.0.0.1"}
\* the step of the clock between the calls: the time one token takes
RaceWaits == {RefillMs(STREAMING)}

\* variant: the bucket is read again when the write is made
bucket_of_reread(w) == stored_bucket(redis_get(flight[w].key, FALSE))

\* tokens and last_refill of the call of w: those of the bucket it read
bucket_of(w) == flight[w].read

\* check_rate_limit up to the return of redis_client.get (rate_limiter.py:73-86)
RaceRead(w, identifier, endpoint, get_fails) ==
    /\ ~flight[w].busy
    /\ checks < MaxRaceChecks
    /\ checks' = checks + 1
    /\ LET limiter == limiter_of(endpoint)
           key == get_key(identifier, endpoint)
       IN  flight' = [flight EXCEPT ![w] =
             IF ~limiter_enabled
             THEN [busy |-> FALSE, key |-> key, limiter |-> limiter, at |-> now, read |-> Nothing,
                   info |-> pass_through(limiter)]
             ELSE [busy |-> TRUE, key |-> key, limiter |-> limiter, at |-> now,
                   read |-> stored_bucket(redis_get(key, get_fails)),
                   info |-> pass_through(limiter)]]
    /\ UNCHANGED <<store_vars, now, waits, limit_ret, cache_log, stream_vars, http_vars, convert_vars, window_vars, agent_vars, client_vars, life_vars>>

\* check_rate_limit from the return of redis_client.get to its own return
\* (rate_limiter.py:88-136)
RaceWrite(w, set_fails) ==
    /\ flight[w].busy
    /\ LET limiter == flight[w].limiter
           info == decide(limiter, refill(limiter, bucket_of(w), flight[w].at))
       IN  /\ store' = redis_set_store(flight[w].key, json_dumps(Bucket(info.tokens, flight[w].at)),
                                       300, set_fails)
           /\ flight' = [flight EXCEPT ![w].busy = FALSE, ![w].info = info]
           /\ limit_ret' = [key |-> flight[w].key, limiter |-> limiter, at |-> flight[w].at,
                            read |-> flight[w].read, wrote |-> redis_set_ok(set_fails), info |-> info]
    /\ UNCHANGED <<redis_available, now, checks, waits, cache_log, stream_vars, http_vars, convert_vars, window_vars, agent_vars, client_vars, life_vars>>

NextRace ==
    \/ \E w \in Workers, identifier \in RaceIdentifiers, endpoint \in Endpoints, get_fails \in BOOLEAN :
         RaceRead(w, identifier, endpoint, get_fails)
    \/ \E w \in Workers, set_fails \in BOOLEAN : RaceWrite(w, set_fails)
    \/ \E dt \in RaceWaits : Wait(dt)

SpecRace == Init /\ [][NextRace]_vars

(***************************************************************************)
(* The /stream handler (main.py) over MarketIntelligenceAgent.stream       *)
(* (agent/graph.py).  The event_generator yields the session event, one    *)
(* message event for every chunk agent.stream yields, and the done event;  *)
(* its except branch yields the error event.  agent.stream yields the      *)
(* chunks of graph.astream and, in its own except branch, one chunk        *)
(* {"error": ...}.                                                         *)
(***************************************************************************)
NoGraphStreamError == "'NoneType' object has no attribute 'astream'"
NotSerializable == "Object of type AIMessage is not JSON serializable"

\* an event the event_generator yields: the SSE event name and its data
SseEvent(event, data) == [event |-> event, data |-> data]
SessionEvent(s) == SseEvent("session", json_dumps(PyDict(<< <<"session_id", PyStr(<<s>>)>> >>)))
DoneEvent == SseEvent("done", json_dumps(PyDict(<< <<"status", PyStr(<<"completed">>)>> >>)))
ErrorEvent(e) == SseEvent("error", json_dumps(PyDict(<< <<"error", PyStr(<<e>>)>> >>)))
\* event_data of a chunk, and the message event that carries it
event_data(chunk) == PyDict(<< <<"type", PyStr(<<"update">>)>>, <<"content", chunk>> >>)
MessageEvent(chunk) == SseEvent("message", json_dumps(event_data(chunk)))

\* the chunk graph.astream yields when the agent node has returned: the
\* update of the node, which holds the message object
agent_chunk ==
    PyDict(<< <<"agent", PyDict(<< <<"messages", PyList(<<PyObject("AIMessage")>>)>> >>)>> >>)
\* the chunk the except branch of agent.stream yields
error_chunk(e) == PyDict(<< <<"error", PyStr(<<e>>)>> >>)

\* what the event_generator yields for a chunk it pulled from agent.stream:
\* the message event, or the error event when json.dumps raises
pulled(chunk) ==
    IF json_dumps_raises(event_data(chunk))
    THEN ErrorEvent(NotSerializable)
    ELSE MessageEvent(chunk)

\* POST /stream: the event_generator is started and yields the session event
Stream(s) ==
    /\ pc[s] = "idle"
    /\ streams < MaxStreams
    /\ streams' = streams + 1
    /\ events' = [events EXCEPT ![s] = <<SessionEvent(s)>>]
    /\ pc' = [pc EXCEPT ![s] = "stream"]
    /\ UNCHANGED <<graph, memory, tool_messages, ret, start, reasons, acts, invokes, calls>>
    /\ UNCHANGED <<store_vars, client_vars, life_vars, cache_log, limiter_vars, http_vars, convert_vars, window_vars>>

\* the event_generator pulls the first chunk: agent.stream calls
\* graph.astream, which raises when there is no graph and otherwise runs up
\* to the model call of the agent node
StreamPull(s) ==
    /\ pc[s] = "stream"
    /\ IF graph = None
       THEN LET yielded == pulled(error_chunk(NoGraphStreamError))
            IN  /\ events' = [events EXCEPT ![s] = Append(@, yielded)]
                /\ pc' = [pc EXCEPT ![s] = IF yielded.event = "error" THEN "idle" ELSE "stream_end"]
                /\ UNCHANGED <<memory, start, reasons, acts>>
       ELSE /\ memory' = [memory EXCEPT ![s] = add_messages(@, <<HumanMessage(UserQuestion)>>)]
            /\ pc' = [pc EXCEPT ![s] = "stream_agent"]
            /\ start' = [start EXCEPT ![s] = Len(memory[s])]
            /\ reasons' = [reasons EXCEPT ![s] = 0]
            /\ acts' = [acts EXCEPT ![s] = 0]
            /\ UNCHANGED events
    /\ UNCHANGED <<graph, tool_messages, ret, invokes, calls, streams>>
    /\ UNCHANGED <<store_vars, client_vars, life_vars, cache_log, limiter_vars, http_vars, convert_vars, window_vars>>

\* variant: the generator returns without a last event
StreamEnd_silent(s) ==
    /\ pc[s] = "stream_end"
    /\ pc' = [pc EXCEPT ![s] = "idle"]
    /\ UNCHANGED <<graph, memory, tool_messages, ret, start, reasons, acts, invokes, calls>>
    /\ UNCHANGED <<store_vars, client_vars, life_vars, api_vars>>

\* the event_generator pulls again and agent.stream has returned: the loop
\* of the event_generator ends and the done event is yielded
StreamEnd(s) ==
    /\ pc[s] = "stream_end"
    /\ events' = [events EXCEPT ![s] = Append(@, DoneEvent)]
    /\ pc' = [pc EXCEPT ![s] = "idle"]
    /\ UNCHANGED <<graph, memory, tool_messages, ret, start, reasons, acts, invokes, calls, streams>>
    /\ UNCHANGED <<store_vars, client_vars, life_vars, cache_log, limiter_vars, http_vars, convert_vars, window_vars>>

\* the model call of the streamed agent node returns or raises: the node
\* returns its message, graph.astream yields the chunk of the node, and the
\* event_generator builds the event of the chunk.  When json.dumps raises,
\* the error event is yielded and the generator returns; agent.stream is
\* not pulled again, and saved says whether the checkpoint of the step was
\* written before the chunk was yielded.
StreamAgentNode(s, llm_ok, batch, saved) ==
    /\ pc[s] = "stream_agent"
    /\ llm_ok \/ batch = << >>
    /\ batch # << >> => calls + Len(batch) <= MaxCalls
    /\ LET response == IF llm_ok
                        THEN AIMessage(IF batch = << >> THEN PlainAnswer ELSE NoContent,
                                       WithIds(batch, Len(memory[s]) + 1))
                        ELSE agent_error_message(LlmError)
           messages == add_messages(memory[s], <<response>>)
           yielded == pulled(agent_chunk)
       IN  /\ reasons' = [reasons EXCEPT ![s] = @ + 1]
           /\ calls' = calls + Len(batch)
           /\ events' = [events EXCEPT ![s] = Append(@, yielded)]
           /\ IF yielded.event = "error"
              THEN /\ memory' = [memory EXCEPT ![s] = IF saved THEN messages ELSE @]
                   /\ pc' = [pc EXCEPT ![s] = "idle"]
              ELSE /\ memory' = [memory EXCEPT ![s] = messages]
                   /\ pc' = [pc EXCEPT ![s] = IF should_continue(messages) = "continue"
                                                THEN "stream_tools" ELSE "stream_end"]
    /\ UNCHANGED <<graph, tool_messages, ret, start, acts, invokes, streams>>
    /\ UNCHANGED <<store_vars, client_vars, life_vars, cache_log, limiter_vars, http_vars, convert_vars, window_vars>>

NextStream ==
    \/ \E s \in Sessions : Stream(s)
    \/ \E s \in Sessions : StreamPull(s)
    \/ \E s \in Sessions, llm_ok \in BOOLEAN, batch \in {<< >>} \cup Batches, saved \in BOOLEAN :
         StreamAgentNode(s, llm_ok, batch, saved)
    \/ \E s \in Sessions : StreamEnd(s)
    \/ InitializeEnter
    \/ ConnectTransport
    \/ ConnectSession
    \/ ConnectInitialize
    \/ ConnectListTools
    \/ CleanupEnter
    \/ DisconnectSession
    \/ DisconnectTransport

SpecStream == Init /\ [][NextStream]_vars

(***************************************************************************)
(* rate_limit_middleware (main.py): every request goes through it before   *)
(* its handler.  The requests arrive at one instant.                       *)
(***************************************************************************)
\* request.url.path of the requests
Paths == {"/query", "/stream", "/health"}
\* request.client.host of the requests
ClientIds == {"10.0.0.1"}

\* the JSONResponse of a denied request: status, retry_after and limit of
\* the content
TooManyRequests(rate_info) ==
    [status |-> "429", retry_after |-> rate_info.reset_in, limit |-> rate_info.limit, handler |-> None]

\* the response of call_next(request): the handler of the path has run
Forwarded(endpoint) ==
    [status |-> "call_next", retry_after |-> 0, limit |-> Nothing, handler |-> endpoint]

\* variant: a denied request is handed to its handler as well
middleware_response_forward(endpoint, allowed, rate_info) == Forwarded(endpoint)

\* what the middleware returns for a request to a rate-limited path
middleware_response(endpoint, allowed, rate_info) ==
    IF ~allowed THEN TooManyRequests(rate_info) ELSE Forwarded(endpoint)

\* what check_rate_limit returns, as the record kept in limit_ret
checked(limiter, key, get_fails) ==
    IF ~limiter_enabled
    THEN [key |-> key, limiter |-> limiter, at |-> now, read |-> Nothing, wrote |-> FALSE,
          info |-> pass_through(limiter)]
    ELSE LET bucket == stored_bucket(redis_get(key, get_fails))
         IN  [key |-> key, limiter |-> limiter, at |-> now, read |-> bucket, wrote |-> FALSE,
              info |-> decide(limiter, refill(limiter, bucket, now))]

\* rate_limit_middleware
Request(client_id, endpoint, get_fails, set_fails) ==
    /\ requests < MaxRequests
    /\ requests' = requests + 1
    /\ IF endpoint \in {"/query", "/stream"}
       THEN LET limiter == limiter_of(endpoint)
                key == get_key(client_id, endpoint)
                rate == checked(limiter, key, get_fails)
            IN  /\ checks' = checks + 1
                /\ store' = IF ~limiter_enabled THEN store
                            ELSE redis_set_store(key, json_dumps(Bucket(rate.info.tokens, now)),
                                                 300, set_fails)
                /\ limit_ret' = [rate EXCEPT !.wrote = limiter_enabled /\ redis_set_ok(set_fails)]
                /\ http_response' = middleware_response(endpoint, rate.info.allowed, rate.info)
       ELSE /\ http_response' = Forwarded(endpoint)
            /\ UNCHANGED <<store, checks, limit_ret>>
    /\ UNCHANGED <<redis_available, now, waits, flight, cache_log, stream_vars, convert_vars, window_vars, agent_vars, client_vars,
                   life_vars>>

NextApi ==
    \E client_id \in ClientIds, endpoint \in Paths, get_fails \in BOOLEAN, set_fails \in BOOLEAN :
         Request(client_id, endpoint, get_fails, set_fails)

SpecApi == Init /\ [][NextApi]_vars

(***************************************************************************)
(* The conversion of a CallToolResult into the result of the tool call     *)
(* (graph.py:219-234), applied to the payloads a tool server can send.     *)
(***************************************************************************)
\* a content item without .text (an image or an embedded resource)
NonTextItem == [has_text |-> FALSE, text |-> RawText(<< >>)]
\* a CallToolResult whose content is not a list
McpScalar(frags) ==
    [has_content |-> TRUE, is_list |-> FALSE, content |-> << >>, scalar |-> frags, isError |-> FALSE]
\* a CallToolResult without a content attribute
McpNoContent ==
    [has_content |-> FALSE, is_list |-> FALSE, content |-> << >>, scalar |-> << >>, isError |-> FALSE]

JsonPrice == TextItem(json_dumps(PriceValue))
JsonNumber == TextItem(json_dumps(PyInt("42")))
PlainChunk == TextItem(RawText(<<"no data for symbol">>))

Payloads ==
    { McpPrice, McpEmptyObject, McpPlainText,
      McpList(<<JsonNumber>>, FALSE),
      McpList(<<PlainChunk, JsonPrice>>, FALSE),
      McpList(<<JsonPrice, PlainChunk>>, FALSE),
      McpList(<<JsonPrice, NonTextItem>>, FALSE),
      McpList(<<NonTextItem>>, FALSE),
      McpList(<<NonTextItem, NonTextItem>>, FALSE),
      McpList(<< >>, FALSE),
      McpScalar(<<"raw bytes">>),
      McpScalar(<< >>),
      McpNoContent }

\* the conversion is applied to one CallToolResult
Convert(mcp_result) ==
    /\ Len(converted) < MaxConversions
    /\ converted' = Append(converted, [mcp_result |-> mcp_result, result |-> extract_result(mcp_result)])
    /\ UNCHANGED <<store_vars, agent_vars, client_vars, life_vars, cache_log, limiter_vars, stream_vars, http_vars,
                   window_vars>>

NextConvert == \E mcp_result \in Payloads : Convert(mcp_result)

SpecConvert == Init /\ [][NextConvert]_vars

(***************************************************************************)
(* The two limiters of main.py checked for several clients: one bucket per *)
(* client and endpoint in the one store.                                   *)
(***************************************************************************)
\* request.client.host: an IPv4 address, an IPv6 address
BucketIdentifiers == {"10.0.0.1", "::1"}
\* the rate-limited paths (main.py:111, 130)
BucketEndpoints == {"/query", "/stream"}
\* the inactivity after which a bucket is gone
BucketWaits == {300 * 1000}

NextBuckets ==
    \/ \E identifier \in BucketIdentifiers, endpoint \in BucketEndpoints, get_fails \in BOOLEAN :
         Check(identifier, endpoint, get_fails, FALSE)
    \/ \E dt \in BucketWaits : Wait(dt)

SpecBuckets == Init /\ [][NextBuckets]_vars

(***************************************************************************)
(* The agent used while its client is connected, disconnected and          *)
(* connected again: initialize, cleanup and initialize once more, with the *)
(* invoke tasks running between their steps.  The model answers, the tool  *)
(* server answers or fails, the store serves every call.                   *)
(***************************************************************************)
NextClient ==
    \/ \E s \in Sessions : Invoke(s)
    \/ \E s \in Sessions, batch \in {<< >>} \cup Batches : AgentNode(s, TRUE, batch)
    \/ \E s \in Sessions : ToolsCall(s, FALSE)
    \/ \E s \in Sessions : RpcReturn(s, McpPrice, FALSE)
    \/ \E s \in Sessions : RpcRaise(s)
    \/ InitializeCall(MaxLifecycle + 1)
    \/ ConnectTransport
    \/ ConnectSession
    \/ ConnectInitialize
    \/ ConnectListTools
    \/ CleanupCall(MaxLifecycle + 1)
    \/ DisconnectSession
    \/ DisconnectTransport

SpecClient == Init /\ [][NextClient]_vars

(***************************************************************************)
(* The checks on one key counted over a window of time, the store serving  *)
(* every call.                                                             *)
(***************************************************************************)
\* the caller begins to count the allowed checks of a client on an endpoint
Observe(identifier, endpoint) ==
    /\ ~window.open
    /\ window' = [open |-> TRUE, key |-> get_key(identifier, endpoint), start |-> now, allowed |-> 0]
    /\ UNCHANGED <<store_vars, agent_vars, client_vars, life_vars, cache_log, limiter_vars, stream_vars, http_vars,
                   convert_vars>>

NextWindow ==
    \/ \E identifier \in Identifiers, endpoint \in Endpoints : Check(identifier, endpoint, FALSE, FALSE)
    \/ \E dt \in Waits : Wait(dt)
    \/ \E identifier \in Identifiers, endpoint \in Endpoints : Observe(identifier, endpoint)

SpecWindow == Init /\ [][NextWindow]_vars

(***************************************************************************)
(* Vocabulary of the properties.                                           *)
(***************************************************************************)
HasToolCalls(m) == m.type = "ai" /\ m.tool_calls # << >>
InAct(s) == pc[s] \in {"tools", "rpc"}

\* the messages the running (or last) invoke of s added to the session
Turn(s) == SubSeq(memory[s], start[s] + 1, Len(memory[s]))

\* the payload of an error tool-result: {"error": <text>, "tool": <name>}
IsErrorPayload(m, name) ==
    /\ m.content.valid_json
    /\ m.content.decoded.type = "dict"
    /\ Len(m.content.decoded.items) = 2
    /\ m.content.decoded.items[1][1] = "error"
    /\ m.content.decoded.items[1][2].type = "str"
    /\ m.content.decoded.items[1][2].text \notin {<< >>, <<"">>}
    /\ m.content.decoded.items[2] = <<"tool", PyStr(<<name>>)>>

IsErrorResult(m) == m.type = "tool" /\ IsErrorPayload(m, m.name)

\* the tool-result m answers the tool call tc
Answers(m, tc) == m.type = "tool" /\ m.tool_call_id = tc.id /\ m.name = tc.name

(***************************************************************************)
(* C1.  For every assistant message that carries tool calls, the tools     *)
(* node appends exactly one tool-result message per tool call, in the      *)
(* positions right after the assistant message, each tagged with the id of *)
(* its tool call, whatever the outcome; the next message after them (the   *)
(* next agent step) is not a tool-result; while the batch is being         *)
(* resolved the tool-results built so far answer the first calls of the    *)
(* batch and the agent step does not run; and every tool-result message of *)
(* a history answers a tool call of the assistant message that precedes    *)
(* its batch.                                                              *)
(***************************************************************************)
C1_BatchAnswered(s, p) ==
    LET m == memory[s]
        n == Len(m[p].tool_calls)
    IN  IF p = Len(m)
        THEN /\ InAct(s)
             /\ Len(tool_messages[s]) < n
             /\ \A i \in 1..Len(tool_messages[s]) : Answers(tool_messages[s][i], m[p].tool_calls[i])
        ELSE /\ p + n <= Len(m)
             /\ \A i \in 1..n : Answers(m[p + i], m[p].tool_calls[i])
             /\ p + n < Len(m) => m[p + n + 1].type # "tool"

C1_HasOwner(s, q) ==
    LET m == memory[s]
    IN  \E p \in 1..(q - 1) :
          /\ HasToolCalls(m[p])
          /\ q - p <= Len(m[p].tool_calls)
          /\ m[q].tool_call_id = m[p].tool_calls[q - p].id

C1_OneResultPerToolCall ==
    \A s \in Sessions :
      /\ \A p \in 1..Len(memory[s]) : HasToolCalls(memory[s][p]) => C1_BatchAnswered(s, p)
      /\ \A q \in 1..Len(memory[s]) : memory[s][q].type = "tool" => C1_HasOwner(s, q)
      /\ pc[s] = "agent" => ~HasToolCalls(Last(memory[s]))
      /\ ~InAct(s) => tool_messages[s] = << >>

\* a batch of two tool calls has been answered, one call by an error and one by a result
C1_Witness ==
    \E s \in Sessions : \E p \in 1..Len(memory[s]) :
      /\ HasToolCalls(memory[s][p])
      /\ Len(memory[s][p].tool_calls) = 2
      /\ p + 2 <= Len(memory[s])
      /\ IsErrorResult(memory[s][p + 1])
      /\ ~IsErrorResult(memory[s][p + 2])

\* the tool-requesting agent steps of the invoke of s, and the tool calls they issued
RoundsOf(s) == Cardinality({p \in 1..Len(Turn(s)) : HasToolCalls(Turn(s)[p])})
CallsOf(s) == Len(tools_used_of(Turn(s)))
Answered(s) == ret[s].returned /\ ~ret[s].failed

(***************************************************************************)
(* C2.  When the model requests tools in exactly N consecutive agent steps *)
(* and then stops, invoke returns after N tools-node executions and N + 1  *)
(* agent-node executions, and the returned tools_used has as many entries  *)
(* as tool calls were issued in those N rounds.                            *)
(***************************************************************************)
C2_LoopTermination ==
    \A s \in Sessions :
      Answered(s) =>
        /\ acts[s] = RoundsOf(s)
        /\ reasons[s] = RoundsOf(s) + 1
        /\ Len(ret[s].tools_used) = CallsOf(s)

\* the part of C2 about the number of phases alone
C2_PhaseCounts ==
    \A s \in Sessions :
      Answered(s) => acts[s] = RoundsOf(s) /\ reasons[s] = RoundsOf(s) + 1

(***************************************************************************)
(* C3.  After an agent step the loop is in the tools node exactly when the *)
(* assistant message just produced carries tool calls; otherwise the loop  *)
(* has ended and invoke has returned the content of that message.  The     *)
(* tools node never runs on a last message without tool calls, and the     *)
(* first assistant message without tool calls of an invoke is its last     *)
(* message.                                                                *)
(***************************************************************************)
C3_Finals(s) == {p \in 1..Len(Turn(s)) : Turn(s)[p].type = "ai" /\ Turn(s)[p].tool_calls = << >>}

C3_Routing ==
    \A s \in Sessions :
      /\ InAct(s) => memory[s] # << >> /\ HasToolCalls(Last(memory[s]))
      /\ memory[s] # << >> /\ HasToolCalls(Last(memory[s])) => InAct(s)
      /\ memory[s] # << >> /\ Last(memory[s]).type = "ai" /\ ~HasToolCalls(Last(memory[s]))
            => /\ pc[s] = "idle"
               /\ Answered(s)
               /\ ret[s].response_text = Last(memory[s]).content
      /\ C3_Finals(s) \subseteq {Len(Turn(s))}
      /\ pc[s] # "idle" => C3_Finals(s) = {}

\* an invoke went through the tools node and then ended with a plain answer
C3_Witness ==
    \E s \in Sessions :
      /\ Answered(s)
      /\ acts[s] >= 1
      /\ ret[s].response_text = PlainAnswer

\* call_tool is entered by s in this step and finds no session
NoSessionCall(s) ==
    \E get_fails \in BOOLEAN :
      /\ ToolsCall(s, get_fails)
      /\ session = None
      /\ ~cache_hit(cache_get(current_call(s).name, current_call(s).args, get_fails))

\* the tool-result message this step of s has built
BuiltMessage(s) ==
    IF Len(tool_messages[s]) + 1 = Len(Last(memory[s]).tool_calls)
    THEN memory'[s][Len(memory[s]) + Len(tool_messages[s]) + 1]
    ELSE tool_messages'[s][Len(tool_messages[s]) + 1]

\* the step of s has recorded the failure e of its tool call and gone on
C4_Recorded(s, e) ==
    /\ Answers(BuiltMessage(s), current_call(s))
    /\ IsErrorPayload(BuiltMessage(s), current_call(s).name)
    /\ BuiltMessage(s).content.decoded.items[1][2] = PyStr(<<e>>)
    /\ pc'[s] = IF Len(tool_messages[s]) + 1 = Len(Last(memory[s]).tool_calls) THEN "agent" ELSE "tools"
    /\ ret'[s] = ret[s]

(***************************************************************************)
(* C4.  When a tool invocation throws in the tools node (the RPC raises,   *)
(* or the client has no session), the step builds the tool-result message  *)
(* of that call with the payload {"error": <error text>, "tool": <name>},  *)
(* tagged with the call id; the node goes on with the next tool call of    *)
(* the batch, or back to the agent node after the last one; and an invoke  *)
(* in which a tool call failed returns the content of the last assistant   *)
(* message, not an exception.                                              *)
(***************************************************************************)
C4_ToolFailureRecorded ==
    /\ [][\A s \in Sessions :
            /\ RpcRaise(s) => C4_Recorded(s, TransportError)
            /\ NoSessionCall(s) => C4_Recorded(s, NoSessionError)]_vars
    /\ [](\A s \in Sessions :
            ret[s].returned /\ (\E p \in 1..Len(Turn(s)) : IsErrorResult(Turn(s)[p]))
              => ~ret[s].failed /\ ret[s].response_text = Last(memory[s]).content)

\* an invoke has returned whose batch of two had a failed first call and a resolved second call
C4_Witness ==
    \E s \in Sessions :
      /\ Answered(s)
      /\ \E p \in 1..Len(Turn(s)) :
            /\ HasToolCalls(Turn(s)[p])
            /\ Len(Turn(s)[p].tool_calls) = 2
            /\ IsErrorResult(Turn(s)[p + 1])
            /\ Turn(s)[p + 2].type = "tool"
            /\ ~IsErrorResult(Turn(s)[p + 2])

(***************************************************************************)
(* C5.  With the store available, a tool call whose cache key holds an     *)
(* entry when the tools node looks it up (the result of an earlier RPC,    *)
(* not yet expired) is answered from the cache and sends no RPC, whatever  *)
(* JSON value the entry holds.                                             *)
(***************************************************************************)
C5_CachedCallSendsNoRpc ==
    [][\A s \in Sessions :
         /\ ToolsCall(s, FALSE)
         /\ redis_available
         /\ make_key(current_call(s).name, current_call(s).args) \in DOMAIN store
         => pc'[s] # "rpc"]_vars

(***************************************************************************)
(* C6.  When the model call raises in the agent node, the node appends one *)
(* assistant message with the explanatory error string and no tool calls,  *)
(* the loop ends in that step without a tools-node execution, and invoke   *)
(* returns that string.                                                    *)
(***************************************************************************)
C6_ModelErrorEndsLoop ==
    [][\A s \in Sessions :
         AgentNode(s, FALSE, << >>) =>
           /\ Len(memory'[s]) = Len(memory[s]) + 1
           /\ Last(memory'[s]).type = "ai"
           /\ Last(memory'[s]).tool_calls = << >>
           /\ Last(memory'[s]).content =
                 RawText(<<"I encountered an error while processing your request: ", LlmError>>)
           /\ pc'[s] = "idle"
           /\ acts'[s] = acts[s]
           /\ ret'[s].returned
           /\ ret'[s].response_text = Last(memory'[s]).content]_vars

\* an invoke ended on a failed model call after one round of tools
C6_Witness ==
    \E s \in Sessions :
      /\ Answered(s)
      /\ acts[s] >= 1
      /\ ret[s].response_text =
            RawText(<<"I encountered an error while processing your request: ", LlmError>>)

(***************************************************************************)
(* C7.  invoke does not raise: a call either starts the loop or, when      *)
(* running the graph fails, returns the string "I encountered an error:    *)
(* ..." with an empty tool list; a session whose invoke is not running has *)
(* a returned result.                                                      *)
(***************************************************************************)
C7_InvokeNeverRaises ==
    /\ [][\A s \in Sessions :
            Invoke(s) =>
              \/ pc'[s] = "agent" /\ ~ret'[s].returned
              \/ /\ pc'[s] = "idle"
                 /\ ret'[s].returned
                 /\ ret'[s].response_text = RawText(<<"I encountered an error: ", NoGraphError>>)
                 /\ ret'[s].tools_used = << >>]_vars
    /\ [](\A s \in Sessions :
            /\ ret[s].failed => /\ ret[s].returned
                                 /\ ret[s].tools_used = << >>
                                 /\ Len(ret[s].response_text.raw) = 2
                                 /\ ret[s].response_text.raw[1] = "I encountered an error: "
            /\ pc[s] = "idle" /\ memory[s] # << >> => ret[s].returned)

\* an invoke made before the graph was built has returned the error string
C7_Witness ==
    \E s \in Sessions : ret[s].returned /\ ret[s].failed /\ invokes >= 1

(***************************************************************************)
(* C8.  The tools_used list invoke returns is the list of the names of the *)
(* tool calls issued during that invoke, in order, also for a session      *)
(* whose history holds tool calls of earlier invokes.                      *)
(***************************************************************************)
C8_ToolsUsedOfThisInvoke ==
    \A s \in Sessions :
      Answered(s) => ret[s].tools_used = tools_used_of(Turn(s))

\* call_tool is entered by s in this step
CallToolEntered(s) ==
    \E get_fails \in BOOLEAN :
      /\ ToolsCall(s, get_fails)
      /\ ~cache_hit(cache_get(current_call(s).name, current_call(s).args, get_fails))

(***************************************************************************)
(* C9.  call_tool entered while the client is not connected runs           *)
(* disconnect and then connect before anything else: the step makes one    *)
(* connect() call.                                                         *)
(***************************************************************************)
C9_ReconnectBeforeCall ==
    [][\A s \in Sessions :
         CallToolEntered(s) /\ ~is_connected => connect_calls' = connect_calls + 1]_vars

(***************************************************************************)
(* C10.  When the RPC of call_tool fails at transport level, the client is *)
(* disconnected when the error reaches the caller.                         *)
(***************************************************************************)
C10_DisconnectedAfterFailure ==
    [][\A s \in Sessions : RpcRaise(s) => ~is_connected']_vars

\* the tool calls of s answered so far, over the whole history
Progress(s) == Len(memory[s]) + Len(tool_messages[s])

(***************************************************************************)
(* C11.  One call_tool call sends at most one RPC.  When the RPC raises,   *)
(* the error reaches the tools node, which records it as the tool-result   *)
(* of that call and moves on: the step does not leave the session waiting  *)
(* on an RPC again.  An RPC is sent only for the tool call that is next to *)
(* be answered, every RPC that ends answers exactly one tool call, and     *)
(* nothing is answered while the RPC is in flight; so no tool call has two *)
(* RPCs.                                                                   *)
(***************************************************************************)
C11_AtMostOneRpc ==
    [][\A s \in Sessions :
         /\ pc[s] = "rpc" /\ pc'[s] # "rpc" => Progress(s)' = Progress(s) + 1
         /\ pc[s] = "rpc" /\ pc'[s] = "rpc" => Progress(s)' = Progress(s)
         /\ pc[s] # "rpc" /\ pc'[s] = "rpc" => pc[s] = "tools" /\ Progress(s)' = Progress(s)
         /\ RpcRaise(s) => pc'[s] # "rpc" /\ C4_Recorded(s, TransportError)]_vars

\* the first RPC of a batch of two failed, and the tools node is at the second call
C11_Witness ==
    \E s \in Sessions :
      /\ pc[s] = "tools"
      /\ Len(tool_messages[s]) = 1
      /\ IsErrorResult(tool_messages[s][1])
      /\ tool_messages[s][1].content.decoded.items[1][2] = PyStr(<<TransportError>>)

(***************************************************************************)
(* C12.  connect() called while the client is connected is a no-op: the    *)
(* step opens no transport and no session, leaves every field of the       *)
(* client (the tool list included) as it was, logs the warning, and        *)
(* returns, so that initialize goes on to build the graph and the          *)
(* lifecycle task is not left inside connect.                              *)
(***************************************************************************)
C12_ConnectIdempotent ==
    [][InitializeEnter /\ is_connected =>
         /\ UNCHANGED client_vars
         /\ warnings' = warnings + 1
         /\ lpc' = "idle"
         /\ graph' = "compiled"]_vars

\* connect() has been called on a connected client, which is still connected
C12_Witness ==
    /\ warnings = 1
    /\ connect_calls = 2
    /\ is_connected
    /\ session = "session"
    /\ tools_cache = ToolList

\* disconnect() returns in this step: called by cleanup, or by connect after a failure
DisconnectReturns ==
    /\ lpc' = "idle"
    /\ \/ CleanupEnter
       \/ DisconnectSession
       \/ DisconnectTransport
       \/ /\ ConnectTransport \/ ConnectSession \/ ConnectInitialize \/ ConnectListTools
          /\ ~is_connected'

(***************************************************************************)
(* C13.  disconnect() does not raise, and when it returns the client holds *)
(* no session and no transport and is not connected, whatever the client   *)
(* held when it was called and whether or not a teardown raised.           *)
(***************************************************************************)
C13_DisconnectReleases ==
    [][DisconnectReturns => session' = None /\ context' = None /\ ~is_connected']_vars

\* the part of C13 about a client that has a session: the teardown of the
\* session and of the transport both run, and the client ends with nothing held
C13_SessionTeardown ==
    [][/\ DisconnectSession => session' = None /\ session_context' = None
       /\ DisconnectTransport => http_context' = None /\ context' = None /\ ~is_connected'
       /\ lpc \in {"d_session", "d_transport"} /\ lpc' = "idle" =>
             /\ session' = None /\ session_context' = None
             /\ http_context' = None /\ context' = None /\ ~is_connected']_vars

\* the two argument mappings hold the same (key, value) pairs
SameMapping(a1, a2) ==
    {a1[i] : i \in 1..Len(a1)} = {a2[i] : i \in 1..Len(a2)}

\* a key of the form cache:<prefix>:<first 16 hex digits of a SHA-256 digest>
WellFormedKey(key, prefix) ==
    /\ Len(key) = 3
    /\ key[1] = "cache"
    /\ key[2] = prefix
    /\ key[3][1] = "sha256/16"

\* the call made last on the cache, and the one before it
LastCall == cache_log[Len(cache_log)]
PrevCall == cache_log[Len(cache_log) - 1]

(***************************************************************************)
(* C14.  Two (tool name, argument mapping) pairs have the same cache key   *)
(* exactly when the tool names are equal and the mappings hold the same    *)
(* (key, value) pairs, in whatever order they were inserted; every key has *)
(* the form cache:<tool name>:<16 hex digits of the digest>; and so does   *)
(* every key a call writes to the store, which holds one entry for all the *)
(* orderings of one mapping.                                               *)
(***************************************************************************)
C14_CacheKey ==
    /\ \A p1 \in Prefixes, p2 \in Prefixes, a1 \in ArgSets, a2 \in ArgSets :
         make_key(p1, a1) = make_key(p2, a2) <=> p1 = p2 /\ SameMapping(a1, a2)
    /\ \A p \in Prefixes, a \in ArgSets : WellFormedKey(make_key(p, a), p)
    /\ \A key \in DOMAIN store : \E p \in Prefixes : WellFormedKey(key, p)
    /\ \A i \in 1..Len(cache_log) :
         cache_log[i].op = "get" /\ cache_log[i].ok =>
           \E j \in 1..(i - 1) :
             /\ cache_log[j].op = "set"
             /\ cache_log[j].prefix = cache_log[i].prefix
             /\ SameMapping(cache_log[j].kwargs, cache_log[i].kwargs)

\* an entry set with (symbol, period) was found by a get with (period, symbol)
C14_Witness ==
    /\ Len(cache_log) = 2
    /\ PrevCall.op = "set" /\ PrevCall.kwargs = ArgsHistory
    /\ LastCall.op = "get" /\ LastCall.kwargs = ArgsHistoryReordered
    /\ LastCall.prefix = PrevCall.prefix
    /\ LastCall.ok
    /\ Cardinality(DOMAIN store) = 1

\* a value of the JSON data model: its JSON text denotes the value itself
IsJsonValue(v) == json_value(v) = v

\* the call is made on the key of (prefix, kwargs) and the store does not fail in it
OnKey(call, prefix, kwargs) ==
    make_key(call.prefix, call.kwargs) = make_key(prefix, kwargs) /\ ~call.fail

C15_Overwritten ==
    /\ redis_available
    /\ Len(cache_log) = 2
    /\ PrevCall.op = "set" /\ ~PrevCall.fail
    /\ LastCall.op = "set" /\ ~LastCall.fail
    /\ OnKey(PrevCall, LastCall.prefix, LastCall.kwargs)
    /\ PrevCall.value # LastCall.value
    /\ json_loads(store[make_key(LastCall.prefix, LastCall.kwargs)].value) = Get(LastCall.value)

\* the store cannot serve the call: it is unavailable, or the operation fails
StoreDown(fail) == ~redis_available \/ fail

(***************************************************************************)
(* C16.  When the store is unavailable or a store operation fails, get     *)
(* returns None and set and delete return False and leave the store as it  *)
(* is; nothing is raised.  In the tools node a failed or unavailable       *)
(* lookup is a miss, so the call of a client that has a session goes to    *)
(* the tool server; and when the write of the result fails or is not       *)
(* possible, the tool-result message of the call carries the result of the *)
(* RPC, not an error payload, and the node goes on.                        *)
(***************************************************************************)
C16_StoreFailureHidden ==
    /\ [](\A fail \in BOOLEAN : StoreDown(fail) =>
            /\ ~cache_set_ok(fail) /\ ~cache_delete_ok(fail)
            /\ \A c \in Calls :
                 /\ IsNone(cache_get(c.name, c.args, fail))
                 /\ cache_set_store(c.name, PriceValue, 0, c.args, fail) = store
                 /\ cache_delete_store(c.name, c.args, fail) = store)
    /\ [][\A s \in Sessions, fail \in BOOLEAN :
            /\ ToolsCall(s, fail) /\ StoreDown(fail) /\ session # None => pc'[s] = "rpc"
            /\ \A m \in McpResults :
                 RpcReturn(s, m, fail) /\ StoreDown(fail) =>
                   /\ store' = store
                   /\ BuiltMessage(s) = tool_result_message(current_call(s), extract_result(m))
                   /\ ~IsErrorPayload(BuiltMessage(s), current_call(s).name)
                   /\ pc'[s] \in {"tools", "agent"}
                   /\ ret'[s] = ret[s]]_vars

\* without a store, an invoke has returned after a tool call that was answered by the RPC result
C16_Witness ==
    /\ ~redis_available
    /\ \E s \in Sessions :
         /\ Answered(s)
         /\ \E p \in 1..Len(Turn(s)) :
              /\ Turn(s)[p].type = "tool"
              /\ Turn(s)[p].content = json_dumps(PriceValue)

\* the stored token count of a bucket, and the limiter of its endpoint
TokensOf(key) == dict_get(json_loads(store[key].value), "tokens").text[1]
LimiterOfKey(key) ==
    limiter_of(CHOOSE endpoint \in Paths : \E identifier \in Identifiers \cup ClientIds : key = get_key(identifier, endpoint))
Full(limiter) == limiter.capacity * TokenUnit

(***************************************************************************)
(* C17.  The token count of a bucket never exceeds the capacity            *)
(* requests_per_minute + burst: not the count a check computes from the    *)
(* stored bucket after any elapsed time, not the count it writes back, and *)
(* not the remaining count it reports.                                     *)
(***************************************************************************)
C17_CapacityClamp ==
    /\ \A key \in DOMAIN store :
         /\ TokensOf(key) <= Full(LimiterOfKey(key))
         /\ \A dt \in Waits \cup {0} :
              refill(LimiterOfKey(key), Some(json_loads(store[key].value)), now + dt)
                <= Full(LimiterOfKey(key))
    /\ limit_ret.info.tokens <= Full(limit_ret.limiter)
    /\ limit_ret.info.remaining <= limit_ret.limiter.capacity

\* a check found a bucket whose count plus the refill of the elapsed time was
\* above the capacity, and wrote the capacity less the token it consumed
C17_Witness ==
    /\ ~IsNone(limit_ret.read)
    /\ refill_unclamped(limit_ret.limiter, limit_ret.read, limit_ret.at) > Full(limit_ret.limiter)
    /\ limit_ret.wrote
    /\ limit_ret.key \in DOMAIN store
    /\ TokensOf(limit_ret.key) = Full(limit_ret.limiter) - TokenUnit

\* the decisions of n check calls made at one instant on a key that has no
\* bucket when the first is made, the store serving every call
RECURSIVE BackToBack(_, _, _)
BackToBack(limiter, bucket, n) ==
    IF n = 0 THEN << >>
    ELSE LET info == decide(limiter, refill(limiter, bucket, 0))
         IN  <<info>> \o BackToBack(limiter, Some(Bucket(info.tokens, 0)), n - 1)

\* the limiter of the example of the scenario: 10 per minute, no burst
TenNoBurst == TokenBucketRateLimiter(10, 0)

\* the last check was made on key with the store serving it, and no time has
\* passed since the bucket of key was written
BackToBackOn(key) ==
    /\ key \in DOMAIN store
    /\ dict_get(json_loads(store[key].value), "last_refill").text[1] = now

(***************************************************************************)
(* C18.  With the store serving every call: a check on a key that has no   *)
(* bucket is allowed and leaves capacity - 1 tokens; a check made with no  *)
(* time elapsed since the last write of the bucket is allowed and takes    *)
(* one token when the bucket holds at least one, and is denied with        *)
(* reset_in > 0 when it holds none.  So of capacity + 1 checks made back   *)
(* to back on a key without a bucket the first capacity are allowed and    *)
(* the last is denied with reset_in > 0, for the presets and for 10 per    *)
(* minute without burst (10 allowed, the 11th denied).                     *)
(***************************************************************************)
C18_BurstDenied ==
    /\ [][\A identifier \in Identifiers, endpoint \in Endpoints :
            LET key == get_key(identifier, endpoint)
                limiter == limiter_of(endpoint)
            IN  Check(identifier, endpoint, FALSE, FALSE) /\ redis_available =>
                  /\ key \notin DOMAIN store =>
                       /\ limit_ret'.info.allowed
                       /\ TokensOf(key)' = Full(limiter) - TokenUnit
                  /\ BackToBackOn(key) /\ TokensOf(key) >= TokenUnit =>
                       /\ limit_ret'.info.allowed
                       /\ TokensOf(key)' = TokensOf(key) - TokenUnit
                  /\ BackToBackOn(key) /\ TokensOf(key) < TokenUnit =>
                       /\ ~limit_ret'.info.allowed
                       /\ limit_ret'.info.reset_in > 0
                       /\ TokensOf(key)' = TokensOf(key)]_vars
    /\ [](\A limiter \in {TenNoBurst, NORMAL, STREAMING, GENEROUS} :
            LET burst_of == BackToBack(limiter, Nothing, limiter.capacity + 1)
            IN  /\ \A i \in 1..limiter.capacity : burst_of[i].allowed
                /\ ~burst_of[limiter.capacity + 1].allowed
                /\ burst_of[limiter.capacity + 1].reset_in > 0)

\* capacity + 1 checks were made at one instant on one key: the bucket is
\* empty and the last check was denied with reset_in > 0
C18_Witness ==
    /\ redis_available
    /\ now = 0
    /\ checks = limit_ret.limiter.capacity + 1
    /\ DOMAIN store = {limit_ret.key}
    /\ TokensOf(limit_ret.key) = 0
    /\ ~limit_ret.info.allowed
    /\ limit_ret.info.reset_in > 0

\* the time elapsed since the bucket of key was written
ElapsedOn(key) == now - dict_get(json_loads(store[key].value), "last_refill").text[1]

\* token counts below one token
Fractions == {0, 1, TokenUnit \div 2, TokenUnit - 1}

(***************************************************************************)
(* C19.  A bucket that holds less than one token allows no request; the    *)
(* check made 1 / refill_rate seconds (60 / requests_per_minute) after the *)
(* bucket was written is allowed and leaves the count it found, still      *)
(* less than one token, so that exactly one request more is allowed than   *)
(* before the wait.  The store serves the calls; the arithmetic is exact.  *)
(***************************************************************************)
C19_RefillOneToken ==
    /\ [][\A identifier \in Identifiers, endpoint \in Endpoints :
            LET key == get_key(identifier, endpoint)
                limiter == limiter_of(endpoint)
            IN  /\ Check(identifier, endpoint, FALSE, FALSE)
                /\ redis_available
                /\ key \in DOMAIN store
                /\ TokensOf(key) < TokenUnit
                => /\ ElapsedOn(key) = 0 => ~limit_ret'.info.allowed
                   /\ ElapsedOn(key) = RefillMs(limiter) =>
                        /\ limit_ret'.info.allowed
                        /\ TokensOf(key)' = TokensOf(key)
                        /\ ~decide(limiter, refill(limiter, Some(json_loads(store'[key].value)),
                                                   now)).allowed]_vars
    /\ [](\A limiter \in {TenNoBurst, NORMAL, STREAMING, GENEROUS}, tokens \in Fractions :
            LET empty == Some(Bucket(tokens, 0))
                before == decide(limiter, refill(limiter, empty, 0))
                after == decide(limiter, refill(limiter, empty, RefillMs(limiter)))
                next == decide(limiter, refill(limiter, Some(Bucket(after.tokens, RefillMs(limiter))),
                                               RefillMs(limiter)))
            IN  /\ RefillMs(limiter) * limiter.requests_per_minute = TokenUnit
                /\ ~before.allowed
                /\ after.allowed
                /\ ~next.allowed)

\* a bucket was emptied, 1 / refill_rate seconds passed, and the check that
\* followed was allowed and left the bucket empty
C19_Witness ==
    /\ redis_available
    /\ ~IsNone(limit_ret.read)
    /\ dict_get(Get(limit_ret.read), "tokens").text[1] = 0
    /\ limit_ret.at - dict_get(Get(limit_ret.read), "last_refill").text[1] = RefillMs(limit_ret.limiter)
    /\ limit_ret.info.allowed
    /\ limit_ret.wrote
    /\ limit_ret.key \in DOMAIN store
    /\ TokensOf(limit_ret.key) = 0

(***************************************************************************)
(* C20.  A check during which a store operation fails, the read of the     *)
(* bucket or the write of the updated bucket, allows the request.          *)
(***************************************************************************)
C20_FailOpen ==
    [][\A identifier \in Identifiers, endpoint \in Endpoints,
          get_fails \in BOOLEAN, set_fails \in BOOLEAN :
            /\ Check(identifier, endpoint, get_fails, set_fails)
            /\ redis_available
            /\ get_fails \/ set_fails
            => limit_ret'.info.allowed]_vars

\* the part of C20 about the read: a check whose read of the bucket fails
\* starts from a full bucket and allows the request
C20_FailedReadAllows ==
    [][\A identifier \in Identifiers, endpoint \in Endpoints, set_fails \in BOOLEAN :
            Check(identifier, endpoint, TRUE, set_fails) /\ redis_available =>
              /\ limit_ret'.info.allowed
              /\ limit_ret'.info.tokens = Full(limiter_of(endpoint)) - TokenUnit]_vars

\* the token count a check would find s seconds after a check that returned info
TokensAfter(limiter, info, s) ==
    refill(limiter, Some(Bucket(info.tokens, 0)), s * 1000)

(***************************************************************************)
(* C21.  The reset_in a check returns is the number of seconds until at    *)
(* least one token is in the bucket: reset_in seconds after the check the  *)
(* bucket holds at least one token, one second earlier it holds no more    *)
(* than one, and reset_in is 0 when the bucket is full.                    *)
(***************************************************************************)
C21_ResetIn ==
    [][\A identifier \in Identifiers, endpoint \in Endpoints :
         Check(identifier, endpoint, FALSE, FALSE) =>
           LET info == limit_ret'.info
               limiter == limiter_of(endpoint)
           IN  /\ TokensAfter(limiter, info, info.reset_in) >= TokenUnit
               /\ info.reset_in > 0 => TokensAfter(limiter, info, info.reset_in - 1) <= TokenUnit
               /\ info.tokens = Full(limiter) => info.reset_in = 0]_vars

\* the part of C21 about a denied check: reset_in seconds are enough for one
\* token and reset_in - 1 seconds are not more than enough
C21_DeniedResetIn ==
    [][\A identifier \in Identifiers, endpoint \in Endpoints :
         Check(identifier, endpoint, FALSE, FALSE) /\ ~limit_ret'.info.allowed =>
           LET info == limit_ret'.info
               limiter == limiter_of(endpoint)
           IN  /\ info.reset_in > 0
               /\ TokensAfter(limiter, info, info.reset_in) >= TokenUnit
               /\ TokensAfter(limiter, info, info.reset_in - 1) <= TokenUnit]_vars

\* what the code does for an allowed check of an enabled limiter: reset_in
\* is 1 whatever the bucket holds
C21_AllowedResetInIsOne ==
    [][\A identifier \in Identifiers, endpoint \in Endpoints :
         Check(identifier, endpoint, FALSE, FALSE) /\ redis_available /\ limit_ret'.info.allowed =>
           limit_ret'.info.reset_in = 1]_vars

\* the two processes made their last calls on one key and both read this bucket
BothRead(bucket) ==
    /\ \A w \in Workers : ~flight[w].busy /\ flight[w].read = Some(bucket)
    /\ \A w1 \in Workers, w2 \in Workers : flight[w1].key = flight[w2].key /\ flight[w1].at = flight[w2].at

(***************************************************************************)
(* C22.  A check is a read of the bucket, a computation and a write, with  *)
(* no transaction around them: the read changes nothing in the store, and  *)
(* the decision and the bucket written are computed from the bucket that   *)
(* was read, whatever the store holds when the write is made.  So two      *)
(* calls made by two processes on one key can read the same bucket and     *)
(* both be allowed.                                                        *)
(***************************************************************************)
C22_NonAtomicCheck ==
    [][\A w \in Workers :
         /\ (\E identifier \in RaceIdentifiers, endpoint \in Endpoints, get_fails \in BOOLEAN :
               RaceRead(w, identifier, endpoint, get_fails)) => store' = store
         /\ RaceWrite(w, FALSE) /\ redis_available =>
              LET limiter == flight[w].limiter
                  info == decide(limiter, refill(limiter, flight[w].read, flight[w].at))
              IN  /\ flight'[w].info = info
                  /\ json_loads(store'[flight[w].key].value) = Bucket(info.tokens, flight[w].at)]_vars

\* both processes read a bucket that held exactly one token, both calls
\* were allowed, and the store holds an empty bucket
C22_Witness ==
    /\ redis_available
    /\ BothRead(Bucket(TokenUnit, 0))
    /\ now = 0
    /\ \A w \in Workers : flight[w].info.allowed /\ flight[w].info.tokens = 0
    /\ TokensOf(flight["w1"].key) = 0

\* the kinds of event of the stream contract
IsUpdate(e) ==
    /\ e.event = "message"
    /\ dict_get(json_loads(e.data), "type") = PyStr(<<"update">>)
IsTerminal(e) == e.event \in {"done", "error"}
Streaming(s) == pc[s] \in {"stream", "stream_agent", "stream_tools", "stream_end"}

(***************************************************************************)
(* C23.  The events of a stream start with the session event of its        *)
(* session; every event after it is an update event, except that the last  *)
(* one may be a done or an error event; while the stream runs no done or   *)
(* error event has been yielded, and when it has ended the last event is   *)
(* the one done or error event.  The sequence is finite: it has at most    *)
(* one update per node execution and one more, and after the done or error *)
(* event nothing is added to it.                                           *)
(***************************************************************************)
C23_EventSequence ==
    /\ [](\A s \in Sessions :
            LET ev == events[s]
            IN  /\ ev # << >> => ev[1] = SessionEvent(s)
                /\ \A i \in 2..Len(ev) : IsUpdate(ev[i]) \/ (IsTerminal(ev[i]) /\ i = Len(ev))
                /\ Streaming(s) => ev # << >> /\ \A i \in 1..Len(ev) : ~IsTerminal(ev[i])
                /\ ~Streaming(s) /\ ev # << >> => Len(ev) >= 2 /\ IsTerminal(Last(ev))
                /\ Len(ev) <= reasons[s] + acts[s] + 3)
    /\ [][\A s \in Sessions :
            events'[s] # events[s] =>
              \/ Stream(s) /\ ~Streaming(s)
              \/ /\ Streaming(s)
                 /\ Len(events'[s]) = Len(events[s]) + 1
                 /\ SubSeq(events'[s], 1, Len(events[s])) = events[s]]_vars

\* a stream has ended with the session event, one update event and the done event
C23_Witness ==
    \E s \in Sessions :
      /\ ~Streaming(s)
      /\ Len(events[s]) = 3
      /\ events[s][1] = SessionEvent(s)
      /\ IsUpdate(events[s][2])
      /\ events[s][3] = DoneEvent

\* a stream has ended with the session event and the error event
C23_EndedByError ==
    \E s \in Sessions :
      /\ ~Streaming(s)
      /\ Len(events[s]) = 2
      /\ events[s][2] = ErrorEvent(NotSerializable)

\* graph.astream raised in the stream of s: the chunk of the except branch of
\* agent.stream is among the chunks the event_generator pulled
LoopFailed(s) ==
    \E i \in 1..Len(events[s]) : events[s][i] = MessageEvent(error_chunk(NoGraphStreamError))

\* the loop of the stream of s ended on an assistant message without tool calls
LoopCompleted(s) ==
    /\ memory[s] # << >>
    /\ Last(memory[s]).type = "ai"
    /\ Last(memory[s]).tool_calls = << >>
    /\ ~LoopFailed(s)

(***************************************************************************)
(* C24.  A stream that has ended has the done event as its last event      *)
(* only when the loop ran to completion; when a failure was raised while   *)
(* the loop was streamed, its last event is the error event and it has no  *)
(* done event.                                                             *)
(***************************************************************************)
C24_TerminalMatchesOutcome ==
    \A s \in Sessions :
      ~Streaming(s) /\ events[s] # << >> =>
        /\ Last(events[s]).event = "done" => LoopCompleted(s)
        /\ LoopFailed(s) =>
             /\ Last(events[s]).event = "error"
             /\ \A i \in 1..Len(events[s]) : events[s][i].event # "done"

\* what the code does when graph.astream raises: the error goes out as the
\* content of an update event, and the done event follows
C24_FailureSentAsUpdate ==
    \A s \in Sessions :
      ~Streaming(s) /\ LoopFailed(s) =>
        events[s] = <<SessionEvent(s), MessageEvent(error_chunk(NoGraphStreamError)), DoneEvent>>

(***************************************************************************)
(* C25.  A request to /query or /stream whose check is denied is answered  *)
(* with status 429 and a retry_after equal to the reset_in of the check,   *)
(* which is positive, and its handler is not called, so the agent is left  *)
(* as it is; a request whose check is allowed is handed to the handler of  *)
(* its path; a request to any other path is handed to its handler without  *)
(* a check.                                                                *)
(***************************************************************************)
C25_DenyOrForward ==
    [][\A client_id \in ClientIds, endpoint \in Paths, get_fails \in BOOLEAN, set_fails \in BOOLEAN :
         Request(client_id, endpoint, get_fails, set_fails) =>
           IF endpoint \in {"/query", "/stream"}
           THEN /\ checks' = checks + 1
                /\ limit_ret'.key = get_key(client_id, endpoint)
                /\ ~limit_ret'.info.allowed =>
                     /\ http_response'.status = "429"
                     /\ http_response'.handler = None
                     /\ http_response'.retry_after = limit_ret'.info.reset_in
                     /\ http_response'.retry_after > 0
                     /\ http_response'.limit = Some(limiter_of(endpoint).requests_per_minute)
                     /\ UNCHANGED agent_vars
                /\ limit_ret'.info.allowed => http_response' = Forwarded(endpoint)
           ELSE /\ http_response' = Forwarded(endpoint)
                /\ UNCHANGED <<store, checks, limit_ret>>]_vars

\* the sixteenth request to /query made at one instant was answered with 429
C25_Witness ==
    /\ redis_available
    /\ http_response.status = "429"
    /\ http_response.handler = None
    /\ limit_ret.key = get_key("10.0.0.1", "/query")
    /\ ~limit_ret.info.allowed
    /\ http_response.retry_after = limit_ret.info.reset_in
    /\ requests = NORMAL.capacity + 1

\* a request to /stream was answered with 429 and the next request to
\* /health was handed to its handler
C25_OtherPathForwarded ==
    /\ redis_available
    /\ http_response = Forwarded("/health")
    /\ limit_ret.key = get_key("10.0.0.1", "/stream")
    /\ ~limit_ret.info.allowed

\* the history of s after the step is the one before it followed by added
Appended(s, added) == memory'[s] = memory[s] \o added

(***************************************************************************)
(* C26.  The message history of a session only grows at its end, over the  *)
(* calls made one after another with its identifier: no step changes or    *)
(* removes a message that is there; a call adds the user message after the *)
(* history of the earlier calls; an agent step adds its one assistant      *)
(* message after all the messages there are; a tools step adds the         *)
(* tool-results of its batch, in the order it built them, when the batch   *)
(* is done and nothing before; and while a call runs, the messages the     *)
(* agent step is given are the history of the earlier calls followed by    *)
(* the messages of this call.                                              *)
(***************************************************************************)
C26_HistoryAppendOnly ==
    /\ [][\A s \in Sessions :
            /\ Len(memory'[s]) >= Len(memory[s])
            /\ SubSeq(memory'[s], 1, Len(memory[s])) = memory[s]
            /\ Invoke(s) /\ graph # None =>
                 /\ Appended(s, <<HumanMessage(UserQuestion)>>)
                 /\ start'[s] = Len(memory[s])
            /\ pc[s] = "agent" /\ pc'[s] # "agent" =>
                 /\ Len(memory'[s]) = Len(memory[s]) + 1
                 /\ Last(memory'[s]).type = "ai"
            /\ InAct(s) /\ pc'[s] = "agent" =>
                 /\ Len(memory'[s]) = Len(memory[s]) + Len(tool_messages[s]) + 1
                 /\ SubSeq(memory'[s], Len(memory[s]) + 1, Len(memory[s]) + Len(tool_messages[s]))
                      = tool_messages[s]
                 /\ Last(memory'[s]).type = "tool"
            /\ InAct(s) /\ InAct(s)' => memory'[s] = memory[s]
            /\ pc[s] # "idle" /\ pc'[s] # "idle" => start'[s] = start[s]]_vars
    /\ [](\A s \in Sessions :
            pc[s] # "idle" =>
              /\ start[s] < Len(memory[s])
              /\ memory[s][start[s] + 1] = HumanMessage(UserQuestion))

\* the second call of a session has returned: its messages follow the four
\* messages of the first call, which used a tool
C26_Witness ==
    \E s \in Sessions :
      /\ Answered(s)
      /\ start[s] = 4
      /\ HasToolCalls(memory[s][2])
      /\ memory[s][3].type = "tool"
      /\ memory[s][5] = HumanMessage(UserQuestion)
      /\ Len(memory[s]) >= 6

\* the part of C26 about stream calls: a streamed loop changes and removes
\* no message of the history either, and adds the user message at its end
C26_StreamedHistoryGrows ==
    [][\A s \in Sessions :
         /\ Len(memory'[s]) >= Len(memory[s])
         /\ SubSeq(memory'[s], 1, Len(memory[s])) = memory[s]
         /\ StreamPull(s) /\ graph # None => Appended(s, <<HumanMessage(UserQuestion)>>)]_vars

(***************************************************************************)
(* C27.  When the tool server answers a call with an error payload (a      *)
(* CallToolResult whose isError is set) the tools node builds for that     *)
(* call the same tool-result as for a call that raised: the payload        *)
(* {"error": <message>, "tool": <name>}, tagged with the id of the call.   *)
(***************************************************************************)
C27_ErrorPayloadRecorded ==
    [][\A s \in Sessions, mcp_result \in McpResults, set_fails \in BOOLEAN :
         RpcReturn(s, mcp_result, set_fails) /\ mcp_result.isError =>
           /\ Answers(BuiltMessage(s), current_call(s))
           /\ IsErrorPayload(BuiltMessage(s), current_call(s).name)]_vars

\* what the code does with an error payload: its text is wrapped as the
\* result of the call, {"result": <text>}, and written to the cache
C27_ErrorPayloadIsResult ==
    [][\A s \in Sessions, mcp_result \in McpResults :
         RpcReturn(s, mcp_result, FALSE) /\ mcp_result.isError /\ redis_available =>
           LET tool_call == current_call(s)
               key == make_key(tool_call.name, tool_call.args)
           IN  /\ BuiltMessage(s) = tool_result_message(tool_call, extract_result(mcp_result))
               /\ extract_result(mcp_result).items[1][1] = "result"
               /\ key \in DOMAIN store'
               /\ json_loads(store'[key].value) = extract_result(mcp_result)]_vars

(***************************************************************************)
(* C28.  A limiter built while the store is unavailable passes every       *)
(* request through: each check is allowed with remaining equal to the      *)
(* capacity and reset_in 0, reads no bucket and writes none, so the store  *)
(* never holds a bucket and no number of checks is denied.                 *)
(***************************************************************************)
C28_PassThrough ==
    /\ [][\A identifier \in Identifiers, endpoint \in Endpoints,
             get_fails \in BOOLEAN, set_fails \in BOOLEAN :
               Check(identifier, endpoint, get_fails, set_fails) /\ ~redis_available =>
                 /\ limit_ret'.info.allowed
                 /\ limit_ret'.info.remaining = limiter_of(endpoint).capacity
                 /\ limit_ret'.info.reset_in = 0
                 /\ IsNone(limit_ret'.read)
                 /\ ~limit_ret'.wrote
                 /\ store' = store]_vars
    /\ [](~redis_available => DOMAIN store = {} /\ (checks > 0 => limit_ret.info.allowed))

\* without a store, more checks than the capacity were made at one instant
\* on one key and the last one was allowed
C28_Witness ==
    /\ ~redis_available
    /\ now = 0
    /\ checks > limit_ret.limiter.capacity
    /\ limit_ret.key = get_key("10.0.0.1", "/stream")
    /\ limit_ret.info.allowed
    /\ limit_ret.info.remaining = limit_ret.limiter.capacity

\* the batch the tools node of s is resolving
BatchOf(s) == Last(memory[s]).tool_calls

(***************************************************************************)
(* C29.  The tool calls of one assistant message are resolved one at a     *)
(* time in the order the message lists them: the tool-results built so far *)
(* answer the first calls of the batch in that order, a step of the tools  *)
(* node resolves the first call that has no tool-result and no other, an   *)
(* RPC is in flight only for that call, the history gets the tool-results  *)
(* in the order of the calls, and the agent node starts again only in the  *)
(* step that resolves the last call of the batch.                          *)
(***************************************************************************)
C29_BatchBarrier ==
    /\ [](\A s \in Sessions :
            /\ InAct(s) =>
                 /\ Len(tool_messages[s]) < Len(BatchOf(s))
                 /\ \A i \in 1..Len(tool_messages[s]) : Answers(tool_messages[s][i], BatchOf(s)[i])
            /\ pc[s] = "agent" /\ Last(memory[s]).type = "tool" =>
                 \E p \in 1..Len(memory[s]) :
                   /\ HasToolCalls(memory[s][p])
                   /\ p + Len(memory[s][p].tool_calls) = Len(memory[s])
                   /\ \A i \in 1..Len(memory[s][p].tool_calls) :
                        Answers(memory[s][p + i], memory[s][p].tool_calls[i]))
    /\ [][\A s \in Sessions :
            /\ InAct(s) /\ InAct(s)' /\ tool_messages'[s] # tool_messages[s] =>
                 /\ Len(tool_messages'[s]) = Len(tool_messages[s]) + 1
                 /\ SubSeq(tool_messages'[s], 1, Len(tool_messages[s])) = tool_messages[s]
                 /\ Answers(Last(tool_messages'[s]), BatchOf(s)[Len(tool_messages[s]) + 1])
            /\ InAct(s) /\ pc'[s] = "agent" =>
                 /\ Len(tool_messages[s]) + 1 = Len(BatchOf(s))
                 /\ Answers(Last(memory'[s]), BatchOf(s)[Len(BatchOf(s))])
            /\ InAct(s) => pc'[s] \in {"tools", "rpc", "agent"}
            /\ pc[s] = "rpc" /\ pc'[s] = "rpc" => tool_messages'[s] = tool_messages[s]]_vars

\* a batch of two calls of different tools was resolved: the history holds
\* the tool-result of the first call and then that of the second, and the
\* agent node runs
C29_Witness ==
    \E s \in Sessions :
      /\ pc[s] = "agent"
      /\ Len(memory[s]) >= 4
      /\ LET p == Len(memory[s]) - 2
         IN  /\ HasToolCalls(memory[s][p])
             /\ Len(memory[s][p].tool_calls) = 2
             /\ memory[s][p].tool_calls[1].name # memory[s][p].tool_calls[2].name
             /\ Answers(memory[s][p + 1], memory[s][p].tool_calls[1])
             /\ Answers(memory[s][p + 2], memory[s][p].tool_calls[2])

\* the text chunks of a content list
TextChunks(items) == {i \in 1..Len(items) : items[i].has_text}

\* the value {"result": <some string>}
IsWrapped(result) ==
    /\ result.type = "dict"
    /\ Len(result.items) = 1
    /\ result.items[1][1] = "result"
    /\ result.items[1][2].type = "str"

\* the content of the CallToolResult has no text chunk: it is no list, or a
\* list without a text chunk, or there is no content
NonText(mcp_result) ==
    \/ ~mcp_result.has_content
    \/ ~mcp_result.is_list
    \/ TextChunks(mcp_result.content) = {}

(***************************************************************************)
(* C30.  The conversion gives a result for every CallToolResult, and the   *)
(* result follows the rule: for content with a text chunk, the decoded     *)
(* value when the text is valid JSON and {"result": <the text>} when it is *)
(* not; for content without a text chunk (a list without one, content      *)
(* that is no list, no content) the value {"result": <string>}.            *)
(***************************************************************************)
C30_ConversionRule ==
    \A n \in 1..Len(converted) :
      LET mcp_result == converted[n].mcp_result
          result == converted[n].result
      IN  IF NonText(mcp_result)
          THEN IsWrapped(result)
          ELSE \E i \in TextChunks(mcp_result.content) :
                 LET text == mcp_result.content[i].text
                 IN  IF text.valid_json
                     THEN result = text.decoded
                     ELSE result = PyDict(<< <<"result", PyStr(text.raw)>> >>)

\* the part of C30 about content with a text chunk: the last text chunk of
\* the list decides, decoded when it is JSON and wrapped when it is not
C30_LastTextChunkDecides ==
    \A n \in 1..Len(converted) :
      LET mcp_result == converted[n].mcp_result
          result == converted[n].result
      IN  ~NonText(mcp_result) =>
            LET i == CHOOSE i \in TextChunks(mcp_result.content) :
                       \A j \in TextChunks(mcp_result.content) : j <= i
                text == mcp_result.content[i].text
            IN  IF text.valid_json
                THEN result = text.decoded
                ELSE result = PyDict(<< <<"result", PyStr(text.raw)>> >>)

\* what the code does for a non-empty list without a text chunk: the result
\* is the empty dict; every other content without text is wrapped
C30_NoTextChunkGivesEmptyDict ==
    \A n \in 1..Len(converted) :
      LET mcp_result == converted[n].mcp_result
          result == converted[n].result
      IN  NonText(mcp_result) =>
            IF mcp_result.has_content /\ mcp_result.is_list /\ mcp_result.content # << >>
            THEN result = PyDict(<< >>)
            ELSE IsWrapped(result)

\* the (identifier, endpoint) pairs that are checked
Pairs == BucketIdentifiers \X BucketEndpoints

\* a check of the pair on an enabled limiter touches only the bucket of the
\* pair, and starts from a full bucket when the pair has none
CheckFrame(identifier, endpoint, get_fails) ==
    LET key == get_key(identifier, endpoint)
    IN  Check(identifier, endpoint, get_fails, FALSE) /\ limiter_enabled =>
          /\ limit_ret'.key = key
          /\ DOMAIN store' = DOMAIN store \cup {key}
          /\ \A k \in DOMAIN store \ {key} : store'[k] = store[k]
          /\ limit_ret'.read = IF key \in DOMAIN store /\ ~get_fails
                               THEN Some(json_loads(store[key].value))
                               ELSE Nothing
          /\ key \notin DOMAIN store =>
               /\ limit_ret'.info.allowed
               /\ limit_ret'.info.tokens = Full(limiter_of(endpoint)) - TokenUnit

(***************************************************************************)
(* C31.  There is one bucket per (identifier, endpoint) pair, stored under *)
(* ratelimit:<endpoint>:<identifier>: two distinct pairs have distinct     *)
(* keys and every stored key is the key of a pair; a check on one pair     *)
(* reads and writes only the bucket of that pair and leaves every other    *)
(* bucket unchanged; a pair with no stored bucket starts from a full       *)
(* bucket.                                                                 *)
(***************************************************************************)
C31_OneBucketPerPair ==
    /\ [](/\ \A p \in Pairs, q \in Pairs : p # q => get_key(p[1], p[2]) # get_key(q[1], q[2])
          /\ \A k \in DOMAIN store : \E p \in Pairs : k = get_key(p[1], p[2])
          /\ get_key("::1", "/query") = "ratelimit:/query:::1")
    /\ [][\A p \in Pairs, get_fails \in BOOLEAN : CheckFrame(p[1], p[2], get_fails)]_vars

\* Witness for C31: the four pairs have a bucket each; the last check took
\* the fifth token of the /stream bucket of one client while the buckets of
\* the others hold what their own checks left
C31_Witness ==
    /\ Cardinality(DOMAIN store) = 4
    /\ limit_ret.key = get_key("::1", "/stream")
    /\ TokensOf(get_key("::1", "/stream")) = Full(STREAMING) - 5 * TokenUnit
    /\ TokensOf(get_key("10.0.0.1", "/stream")) = Full(STREAMING) - TokenUnit
    /\ TokensOf(get_key("::1", "/query")) = Full(NORMAL) - 2 * TokenUnit
    /\ TokensOf(get_key("10.0.0.1", "/query")) = Full(NORMAL) - TokenUnit

\* the last step was a check_rate_limit call on an enabled limiter
Checked == checks' = checks + 1 /\ limiter_enabled

(***************************************************************************)
(* C32.  A check on an enabled limiter is allowed exactly when the         *)
(* refilled count is at least one token; the count it keeps is the         *)
(* refilled count less one token when it allows and the refilled count     *)
(* when it denies, and is never negative while the clock does not go       *)
(* back; the write to the store, when it goes through, stores that count   *)
(* with the time of the check and a TTL of 300 seconds, whether the check  *)
(* allowed or denied.                                                      *)
(***************************************************************************)
C32_WriteBack ==
    /\ [](\A k \in DOMAIN store :
            /\ TokensOf(k) >= 0
            /\ store[k].ex = 300
            /\ dict_get(json_loads(store[k].value), "last_refill").text[1] <= now)
    /\ [][Checked =>
            LET key == limit_ret'.key
                info == limit_ret'.info
                refilled == refill(limit_ret'.limiter, limit_ret'.read, now)
            IN  /\ info.allowed <=> refilled >= TokenUnit
                /\ info.allowed => info.tokens = refilled - TokenUnit
                /\ ~info.allowed => info.tokens = refilled
                /\ info.tokens >= 0
                /\ limit_ret'.at = now
                /\ IF limit_ret'.wrote
                   THEN /\ DOMAIN store' = DOMAIN store \cup {key}
                        /\ store'[key] = [value |-> json_dumps(Bucket(info.tokens, now)), ex |-> 300]
                   ELSE store' = store]_vars

\* Witness for C32: a denied check at a later time wrote the part of a token
\* it found, with its own time
C32_Witness ==
    /\ checks > 0
    /\ limiter_enabled
    /\ ~limit_ret.info.allowed
    /\ limit_ret.wrote
    /\ now = 5000
    /\ limit_ret.info.tokens = 5000 * STREAMING.requests_per_minute
    /\ store[limit_ret.key] = [value |-> json_dumps(Bucket(limit_ret.info.tokens, now)), ex |-> 300]

\* Witness for C32, the allowed case: an allowed check wrote the refilled
\* count less one token
C32_AllowedWitness ==
    /\ checks > 0
    /\ limiter_enabled
    /\ limit_ret.info.allowed
    /\ limit_ret.wrote
    /\ now = RefillMs(STREAMING)
    /\ ~IsNone(limit_ret.read)
    /\ store[limit_ret.key] = [value |-> json_dumps(Bucket(0, now)), ex |-> 300]

\* the times of the allowed checks among the checks made at t + gaps[1],
\* t + gaps[1] + gaps[2], ... on one key, the store serving every call and
\* dropping the bucket 300 seconds after it was written
RECURSIVE AllowedTimes(_, _, _, _)
AllowedTimes(limiter, bucket, t, gaps) ==
    IF gaps = << >> THEN << >>
    ELSE LET at == t + Head(gaps)
             found == IF ~IsNone(bucket)
                         /\ dict_get(Get(bucket), "last_refill").text[1] + 300 * 1000 > at
                      THEN bucket ELSE Nothing
             info == decide(limiter, refill(limiter, found, at))
         IN  (IF info.allowed THEN <<at>> ELSE << >>)
             \o AllowedTimes(limiter, Some(Bucket(info.tokens, at)), at, Tail(gaps))

\* n checks, each gap milliseconds after the one before
Every(gap, n) == [i \in 1..n |-> gap]

\* bursts and steady streams of checks, before and after the bucket expired
Schedules(limiter) ==
    { Every(gap, limiter.capacity + 2) \o <<300 * 1000>> \o Every(gap, limiter.capacity + 2) :
        gap \in {0, RefillMs(limiter) \div 2, RefillMs(limiter)} }

\* no window of time holds more allowed checks than the capacity and the
\* refill of the window
WithinBound(limiter, times) ==
    \A i \in 1..Len(times), j \in 1..Len(times) :
      i <= j => (j - i + 1) * TokenUnit
                  <= limiter.capacity * TokenUnit + (times[j] - times[i]) * limiter.requests_per_minute

\* the bound holds on the schedules of each preset
PresetsWithinBound ==
    \A limiter \in {NORMAL, STREAMING, GENEROUS} :
      \A gaps \in Schedules(limiter) : WithinBound(limiter, AllowedTimes(limiter, Nothing, 0, gaps))

(***************************************************************************)
(* C33.  With a store that serves every call and checks on one key made    *)
(* one after the other, the allowed checks in a window of T seconds are    *)
(* at most capacity + T * requests_per_minute / 60: for the checks counted *)
(* from any moment on, also across the expiry of the bucket after 300      *)
(* seconds, and for each of the presets 10+5, 5+2 and 30+10.               *)
(***************************************************************************)
C33_WindowBound ==
    /\ window.open /\ redis_available =>
         window.allowed * TokenUnit
           <= LimiterOfKey(window.key).capacity * TokenUnit
              + (now - window.start) * LimiterOfKey(window.key).requests_per_minute
    /\ checks > 0 => PresetsWithinBound

\* Witness for C33: the bound is met: the count began with a full bucket, the
\* burst emptied it, and each of the two waits of 1 / refill_rate seconds
\* let one more check through
C33_Witness ==
    /\ redis_available
    /\ window.open
    /\ window.start = 0
    /\ now = 2 * RefillMs(STREAMING)
    /\ window.allowed = STREAMING.capacity + 2
    /\ limit_ret.key = window.key
    /\ limit_ret.info.tokens = 0

\* Witness for C33, the expiry: the count began with a full bucket, the burst
\* emptied it, the bucket expired and the check that followed was allowed
\* from a full bucket
C33_ExpiryWitness ==
    /\ redis_available
    /\ window.open
    /\ window.start = 0
    /\ now = 300 * 1000
    /\ window.allowed = STREAMING.capacity + 1
    /\ IsNone(limit_ret.read)
    /\ limit_ret.key = window.key
    /\ limit_ret.at = now
    /\ limit_ret.info.tokens = Full(STREAMING) - TokenUnit

\* the time of writing of the stored bucket of key
LastRefillOf(key) == dict_get(json_loads(store[key].value), "last_refill").text[1]

\* what the stored bucket of key lacks for one token, counted from time 0 at
\* the rate of the limiter: the bucket holds a token from the time
\* Shortfall / requests_per_minute on
Shortfall(key) ==
    LastRefillOf(key) * LimiterOfKey(key).requests_per_minute + TokenUnit - TokensOf(key)

\* the check of the step was served by the store and found a bucket
ServedOn(key) ==
    /\ Checked
    /\ limit_ret'.key = key
    /\ key \in DOMAIN store
    /\ ~IsNone(limit_ret'.read)
    /\ limit_ret'.wrote

\* the bucket is emptied by a burst at time 0, denied checks follow at the
\* given gaps, and the last check is made 1 / refill_rate after the burst
DeniedBetween(limiter) ==
    LET r == RefillMs(limiter)
    IN  { Every(0, limiter.capacity + 1) \o split :
            split \in { <<r>>, <<r \div 2, r \div 2>>, Every(r \div 4, 4), Every(r \div 5, 5),
                        <<1000, r - 1000>>, <<1, 1, r - 2>>, <<r - 1, 1>> } }

\* on each of these schedules the burst is allowed, and after it the last
\* check and no other
PresetsAdmitOnTime ==
    \A limiter \in {NORMAL, STREAMING, GENEROUS} :
      \A gaps \in DeniedBetween(limiter) :
        AllowedTimes(limiter, Nothing, 0, gaps)
          = Every(0, limiter.capacity) \o <<RefillMs(limiter)>>

Writes == \E key \in DOMAIN store' : key \notin DOMAIN store \/ store'[key] # store[key]

\* the step resolves the current tool call of s
ResolvedIn(s) ==
    /\ pc[s] \in {"tools", "rpc"}
    /\ \/ Len(tool_messages'[s]) = Len(tool_messages[s]) + 1
       \/ Len(memory'[s]) > Len(memory[s])

(***************************************************************************)
(* C35.  The tools node writes a cache entry only when the RPC of the tool *)
(* call has returned successfully, that is with a result that is not an    *)
(* error payload: a tool call that raises or is answered by an error       *)
(* writes no entry, and a tool call served from the cache leaves the entry *)
(* and its TTL as they are.                                                *)
(***************************************************************************)
C35_CacheWriteOnlyAfterSuccess ==
    [][/\ Writes =>
            \E s \in Sessions, mcp_result \in McpResults :
              /\ ~mcp_result.isError
              /\ RpcReturn(s, mcp_result, FALSE)
       /\ \A s \in Sessions :
            ResolvedIn(s) /\ pc[s] = "tools" => store' = store]_vars

\* what the code does: an entry is written by every call_tool that returns,
\* error payloads included, and by nothing else; a call that raises, a call
\* without a session and a call served from the cache leave the store as it is
C35_CacheWriteAfterEveryReturn ==
    [][/\ Writes => \E s \in Sessions, mcp_result \in McpResults : RpcReturn(s, mcp_result, FALSE)
       /\ \A s \in Sessions :
            /\ ResolvedIn(s) /\ pc[s] = "tools" => store' = store
            /\ RpcRaise(s) => store' = store
            /\ RpcReturn(s, McpPlainText, FALSE) /\ redis_available =>
                 LET key == make_key(current_call(s).name, current_call(s).args)
                 IN  store'[key] = [value |-> json_dumps(extract_result(McpPlainText)), ex |-> 300]]_vars

\* a step of connect()
ConnectStep == ConnectTransport \/ ConnectSession \/ ConnectInitialize \/ ConnectListTools

\* connect() raises in this step: an await of connect raised and the
\* disconnect() of its except branch returned at once
ConnectRaises == ConnectStep /\ lpc' = "idle" /\ ~is_connected'

\* the client holds no session and no transport
HoldsNothing ==
    /\ session = None
    /\ session_context = None
    /\ http_context = None
    /\ context = None

(***************************************************************************)
(* C36.  When connect() fails, at the opening of the transport, at the     *)
(* opening of the session, at the handshake or at the fetch of the tool    *)
(* list, the client is not connected and holds nothing when the error      *)
(* reaches the caller: the session handle and the transport handles of the *)
(* attempt are released and cleared; and outside a connect or disconnect   *)
(* in progress a client that is not connected holds nothing.               *)
(***************************************************************************)
C36_FailedConnectReleases ==
    /\ [][ConnectRaises => HoldsNothing' /\ ~is_connected']_vars
    /\ [](lpc = "idle" /\ ~is_connected => HoldsNothing)

\* the part of C36 that holds: a failure of the handshake or of the tool
\* list, when the session is set, goes through the teardown of the session
\* and of the transport, and the client then holds nothing
C36_FailureWithSessionReleases ==
    [][/\ (ConnectInitialize \/ ConnectListTools) /\ ~is_connected' /\ lpc' # "c_list_tools" =>
            lpc' = "d_session" /\ session_context' # None
       /\ lpc \in {"d_session", "d_transport"} /\ lpc' = "idle" => HoldsNothing' /\ ~is_connected']_vars

\* what the code does when the transport or the session fails to open: the
\* disconnect of the except branch returns at its guard and the handles of
\* the attempt stay set
C36_FailureWithoutSessionLeaks ==
    [][/\ ConnectTransport /\ lpc' = "idle" => http_context' # None /\ session' = None
       /\ ConnectSession /\ lpc' # "c_initialize" =>
            /\ lpc' = "idle"
            /\ http_context' # None /\ context' # None /\ session_context' # None
            /\ session' = None /\ ~is_connected']_vars

\* session.call_tool is called by s in this step: an RPC is sent
RpcSent(s) == pc[s] # "rpc" /\ pc'[s] = "rpc"

(***************************************************************************)
(* C37.  Under every interleaving of connect, disconnect and call_tool, an *)
(* RPC is sent only while the client is connected: the handshake and the   *)
(* fetch of the tool list of the session it is sent on have completed and  *)
(* the session has not been released.                                      *)
(***************************************************************************)
C37_RpcOnlyWhenConnected ==
    [][\A s \in Sessions :
         RpcSent(s) =>
           /\ is_connected
           /\ session # None
           /\ lpc \notin {"c_initialize", "c_list_tools"}]_vars

\* what the code does: call_tool looks at the session only, which is set
\* from the opening of the session to its teardown
C37_RpcOnlyWithSession ==
    [][\A s \in Sessions :
         /\ RpcSent(s) => session # None /\ session_context # None
         /\ CallToolEntered(s) /\ session # None => RpcSent(s)
         /\ CallToolEntered(s) /\ session = None => ~RpcSent(s)]_vars

\* an RPC is sent while connect() waits for the handshake of the session
C37_SentWhileConnecting ==
    \E s \in Sessions :
      /\ pc[s] = "rpc"
      /\ lpc \in {"c_initialize", "c_list_tools"}
      /\ ~is_connected
      /\ connect_calls = 2

\* the cache key of the tool call s is resolving
KeyOfCall(s) == make_key(current_call(s).name, current_call(s).args)

\* s and another session wait for the answer to an RPC for the same tool
\* and equivalent arguments
TwoInFlight ==
    \E s1 \in Sessions, s2 \in Sessions :
      /\ s1 # s2
      /\ pc[s1] = "rpc"
      /\ pc[s2] = "rpc"
      /\ KeyOfCall(s1) = KeyOfCall(s2)

(***************************************************************************)
(* C38.  With the store available, sessions that request the same tool     *)
(* with equivalent arguments at the same time cause at most one RPC for    *)
(* that pair: no RPC for the pair is sent while another session's RPC for  *)
(* it is in flight, and so no two are in flight together.                  *)
(***************************************************************************)
C38_OneRpcPerPair ==
    /\ [](redis_available => ~TwoInFlight)
    /\ [][\A s1 \in Sessions, s2 \in Sessions :
            /\ redis_available
            /\ s1 # s2
            /\ RpcSent(s1)
            /\ pc[s2] = "rpc"
            => KeyOfCall(s1) # KeyOfCall(s2)]_vars

\* what the code does: the lookup of a call looks at the store only, so a
\* call whose lookup finds no entry sends its RPC whether or not another
\* session's RPC for the same pair is in flight, and each of the two
\* answers is then written to the cache
C38_MissSendsRpc ==
    [][\A s \in Sessions :
         /\ ToolsCall(s, FALSE) /\ session # None /\ KeyOfCall(s) \notin DOMAIN store => RpcSent(s)
         /\ redis_available /\ TwoInFlight /\ RpcReturn(s, McpPrice, FALSE) =>
              store'[KeyOfCall(s)] = [value |-> json_dumps(PriceValue), ex |-> 300]]_vars

\* the step is a step of the call of session s
StepOf(s) ==
    \/ pc'[s] # pc[s]
    \/ tool_messages'[s] # tool_messages[s]
    \/ ret'[s] # ret[s]

\* the step leaves everything the calls of session o own as it is
Untouched(o) ==
    /\ memory'[o] = memory[o]
    /\ tool_messages'[o] = tool_messages[o]
    /\ pc'[o] = pc[o]
    /\ ret'[o] = ret[o]
    /\ start'[o] = start[o]

(***************************************************************************)
(* C39.  The histories of the sessions are isolated: a step of an invoke   *)
(* call for one session identifier adds, changes and removes no message in *)
(* the history of another session identifier, under every interleaving of  *)
(* the calls; a history changes only in a step of its own session, and     *)
(* that step leaves the history, the pending tool-results, the position    *)
(* and the result of every other session as they are.                      *)
(***************************************************************************)
C39_SessionsIsolated ==
    [][\A s \in Sessions :
         /\ memory'[s] # memory[s] => StepOf(s)
         /\ StepOf(s) => \A o \in Sessions \ {s} : Untouched(o)]_vars

\* Witness for C39: the call of s2 began and ended while the call of s1
\* waited for its RPC, and each history holds the messages of its own call
C39_Witness ==
    /\ pc["s1"] = "rpc"
    /\ Len(memory["s1"]) = 2
    /\ pc["s2"] = "idle"
    /\ ret["s2"] # NotReturned
    /\ Len(memory["s2"]) = 4
    /\ start["s2"] = 0

\* the part of C39 about stream: a step of the stream of one session leaves
\* the history of every other session as it is
C39_StreamsIsolated ==
    [][\A s \in Sessions :
         /\ memory'[s] # memory[s] => pc'[s] # pc[s] \/ events'[s] # events[s]
         /\ pc'[s] # pc[s] \/ events'[s] # events[s] =>
              \A o \in Sessions \ {s} : memory'[o] = memory[o] /\ events'[o] = events[o]]_vars

====
